---------------------------- MODULE Spec2Model ----------------------------
(***************************************************************************)
(* A model of the terminal dashboard host (twidgets): the lifecycle        *)
(* controller main_entry_point, the session body main_curses with its      *)
(* render/input loop, and the background thread reload_widget_scheduler.   *)
(* The foreground thread and the scheduler thread interleave statement by  *)
(* statement on the shared fields draw_data and last_updated of each       *)
(* widget; time is a clock that advances during update calls and sleeps.   *)
(***************************************************************************)
EXTENDS Integers, Sequences, FiniteSets, TLC

(***************************************************************************)
(* Bounds of the model.                                                    *)
(***************************************************************************)
\* The clock runs from StartTime up to MaxTime and then stands still.
MaxTime == 3

\* The widgets of a session, in declaration order (the order of widget_dict).
WidgetIds == {"w1", "w2"}

WidgetOrder == <<"w1", "w2">>

\* Python's None.
None == "None"

\* The intervals a widget file may give (0 is normalised to None by Config).
Intervals == {0, 1}

\* time.time() at the first tick is far beyond every interval, so that every
\* widget is due on the first tick (Widget.last_updated starts at 0).
StartTime == 1

(***************************************************************************)
(* Payloads: what update returns and draw_data holds.  A dict or a list is *)
(* a record: has_error says whether the key '__error__' is in it, body     *)
(* holds the lines (or the error text).                                    *)
(***************************************************************************)
EmptyData == [has_error |-> FALSE, body |-> <<>>]

Payload(lines) == [has_error |-> FALSE, body |-> lines]

\* {'__error__': str(e)}
ErrorMarker(text) == [has_error |-> TRUE, body |-> <<text>>]

\* The payloads the bound update functions return (lists of text lines).
UpdateResults == {Payload(<<"A", "a">>), Payload(<<"B", "b">>)}

\* The messages of the exceptions the bound update functions raise.
UpdateErrors == {"boom"}

\* Python truthiness of a draw_data value: a non-empty dict or list.
Truthy(d) == d.has_error \/ d.body # <<>>


(***************************************************************************)
(* Log messages (LogLevels, LogMessage, LogMessages).                      *)
(***************************************************************************)
LogLevels == [UNKNOWN |-> 0, INFO |-> 1, DEBUG |-> 2, WARNING |-> 3, ERROR |-> 4]

LogMessage(file, level) == [file |-> file, level |-> level]

\* A faulty variant of contains_error: a Warning counts as an Error.
contains_error_or_warning(log) == \E i \in 1..Len(log) : log[i].level >= LogLevels.WARNING

is_error(m) == m.level = LogLevels.ERROR

contains_error(log) == \E i \in 1..Len(log) : is_error(log[i])

(***************************************************************************)
(* Configuration files.  A file is described by what loading it does.      *)
(*   "ok"       valid, no message                                          *)
(*   "warn"     theme file with a missing optional field: one Warning      *)
(*   "error"    a field missing or mistyped: one Error                     *)
(*   "warn_error"  theme file with one Warning and one Error               *)
(*   "yamlerr"  yaml.parser.ParserError while loading                      *)
(*   "scanerr"  yaml.scanner.ScannerError while loading (an unclosed quote, *)
(*              a tab, "a: b: c"): another exception class of the YAML     *)
(*              library, not a subclass of ParserError                     *)
(*   "missing"  the file does not exist                                    *)
(***************************************************************************)
ThemeStates == {"ok", "warn", "error", "warn_error", "yamlerr", "scanerr", "missing"}

WidgetFileStates == {"ok", "error", "yamlerr", "scanerr", "missing"}

FileSets == [theme : ThemeStates, widgets : [WidgetIds -> WidgetFileStates]]

\* The messages BaseConfig.__init__ / Config.__init__ append for a file.
ValidationLog(file, st) ==
    CASE st = "warn"       -> <<LogMessage(file, LogLevels.WARNING)>>
      [] st = "error"      -> <<LogMessage(file, LogLevels.ERROR)>>
      [] st = "warn_error" -> <<LogMessage(file, LogLevels.WARNING),
                                LogMessage(file, LogLevels.ERROR)>>
      [] OTHER             -> <<>>

\* load_base_config / load_widget_config: the exception raised (or None) and
\* the messages appended to the log that was passed in.
load_config(file, st) ==
    CASE st = "missing" -> [raised |-> "ConfigFileNotFoundError", log |-> <<>>]
      [] st = "yamlerr" -> [raised |-> "YAMLParseException", log |-> <<>>]
      [] st = "scanerr" -> [raised |-> "ScannerError", log |-> <<>>]
      [] OTHER          -> [raised |-> None, log |-> ValidationLog(file, st)]

\* The files in scan order: the theme file, then the widget files.
ScanOrder(fs) ==
    <<[file |-> "base", st |-> fs.theme]>> \o
    [i \in 1..Len(WidgetOrder) |->
        [file |-> WidgetOrder[i], st |-> fs.widgets[WidgetOrder[i]]]]

\* One try-block of scan_config: final_log after scanning one file.
scan_one(final_log, r, file) ==
    IF r.raised = "YAMLParseException"
    THEN final_log \o <<LogMessage(file, LogLevels.ERROR)>>
    ELSE IF contains_error(r.log) THEN final_log \o r.log ELSE final_log

RECURSIVE scan_from(_, _, _)
scan_from(order, i, final_log) ==
    IF i > Len(order)
    THEN [raised |-> None, ok |-> ~contains_error(final_log), log |-> final_log]
    ELSE LET r == load_config(order[i].file, order[i].st)
         IN  IF r.raised \in {"ConfigFileNotFoundError", "ScannerError"}
             THEN [raised |-> r.raised, ok |-> FALSE, log |-> <<>>]
             ELSE scan_from(order, i + 1, scan_one(final_log, r, order[i].file))

\* ConfigScanner.scan_config: ok is the return value True; otherwise log is
\* the returned aggregate; raised is the exception that left the scan.
scan_config(fs) == scan_from(ScanOrder(fs), 1, <<>>)

(***************************************************************************)
(* Widgets.                                                                *)
(***************************************************************************)
\* An optional number (int | float | None).
NoNumber == [is_none |-> TRUE, value |-> 0]

Number(n) == [is_none |-> FALSE, value |-> n]

\* A faulty variant of config_interval: an interval of 0 is kept as it is.
config_interval_kept(raw) == Number(raw)

\* A faulty variant of config_interval: an interval that is not positive is
\* normalised to None.
config_interval_positive_only(raw) == IF raw <= 0 THEN NoNumber ELSE Number(raw)

\* Config.__init__: self.interval = interval; if interval == 0: None.
config_interval(raw) == IF raw = 0 THEN NoNumber ELSE Number(raw)

\* What a widget file and its module give: whether build binds an update
\* function, the raw interval and the enabled flag.
WidgetKinds == [update_func : BOOLEAN, raw_interval : Intervals, enabled : BOOLEAN]

\* The Widget built from a kind (Widget.__init__ through module.build).
build(kind) ==
    [update_func |-> kind.update_func,
     interval    |-> config_interval(kind.raw_interval),
     enabled     |-> kind.enabled]

\* The state of the widgets before build_widgets has run.
NotBuilt == [w \in WidgetIds |-> build([update_func |-> FALSE, raw_interval |-> 0, enabled |-> FALSE])]

\* Python truthiness of Widget.interval.
interval_truthy(iv) == ~iv.is_none /\ iv.value # 0

\* A faulty variant of updatable: the enabled flag is not consulted.
updatable_ignoring_enabled(wd) == wd.update_func /\ interval_truthy(wd.interval)

\* Widget.updatable
updatable(wd) == wd.update_func /\ interval_truthy(wd.interval) /\ wd.enabled

\* A faulty variant of draw_invokes: the enabled flag is not consulted.
draw_invokes_always(wd) == TRUE

\* Widget.draw: whether the bound draw function is invoked.
draw_invokes(wd) == wd.enabled

\* Widget.update: whether the bound update function is invoked.
update_invokes(wd) == wd.update_func /\ wd.enabled

\* Dimensions of the widgets (height, width, y, x from the widget files).
Dims ==
    [w \in WidgetIds |->
        IF w = "w1" THEN [height |-> 2, width |-> 4, y |-> 0, x |-> 0]
                    ELSE [height |-> 2, width |-> 4, y |-> 2, x |-> 0]]

\* The terminal sizes getmaxyx may report (height, width).
TermSizes == {<<4, 4>>, <<3, 4>>, <<4, 3>>}

Max(S) == CHOOSE m \in S : \A n \in S : n <= m

\* main_curses lines 61-62 / 84-87: the bounding box of the enabled widgets.
min_height(ws) == Max({Dims[w].height + Dims[w].y : w \in {v \in WidgetIds : ws[v].enabled}})

min_width(ws) == Max({Dims[w].width + Dims[w].x : w \in {v \in WidgetIds : ws[v].enabled}})

\* A faulty variant of terminal_too_small: only the height is compared.
terminal_too_low(size, mh, mw) == size[1] < mh

\* validate_terminal_size: whether TerminalTooSmall is raised.
terminal_too_small(size, mh, mw) == size[1] < mh \/ size[2] < mw

(***************************************************************************)
(* State.                                                                  *)
(***************************************************************************)
VARIABLES
    pc,             \* position of the foreground thread
    exc,            \* the exception in flight in the foreground thread
    term,           \* terminal mode: "normal", "curses" (after initscr), "dashboard" (after init_curses_setup)
    files,          \* the configuration files of this session
    log_messages,   \* main_curses log_messages
    printed,        \* what main_entry_point has printed, with the terminal mode at that time
    widgets,        \* the built widgets (update_func, interval, enabled)
    ui_state,       \* UIState: highlighted, previously_highlighted
    stop_event,     \* threading.Event
    ridx,           \* the redraw pass: index into WidgetOrder
    data_copy,      \* main_curses data_copy
    lock,           \* per widget: who holds Widget.lock
    draw_data,      \* per widget: Widget.draw_data
    last_updated,   \* per widget: Widget.last_updated
    spc,            \* position of the scheduler thread
    sidx,           \* the scheduler's loop: index into reloadable_widgets
    now,            \* the scheduler's local now
    clock,          \* time.time()
    fg_event,       \* history: the plugin function the foreground thread invoked in its last step,
                    \* and after the start of a frame what it read (size, key, button, point)
    sched_event,    \* history: the plugin function the scheduler thread invoked in its last step
    call_time,      \* history: the clock when the update call in progress was made
    accepted_at     \* history: per widget, the clock at the call of the last accepted refresh

life_vars == <<term, files, log_messages, printed>>

render_vars == <<ridx, data_copy, lock>>

shared_vars == <<draw_data, last_updated>>

sched_vars == <<spc, sidx, now, sched_event, call_time, accepted_at>>

fg_vars == <<pc, exc, life_vars, widgets, ui_state, stop_event, render_vars, fg_event>>

vars == <<fg_vars, shared_vars, sched_vars, clock>>

NoExc == [type |-> "none", log |-> <<>>, detail |-> "", size |-> <<>>]

Exc(type, log, detail) == [type |-> type, log |-> log, detail |-> detail, size |-> <<>>]

\* TerminalTooSmall(height, width, min_height, min_width)
TerminalTooSmall(size, mh, mw) ==
    [type |-> "TerminalTooSmall", log |-> <<>>, detail |-> "", size |-> <<size[1], size[2], mh, mw>>]

\* A call of a bound plugin function.
NoEvent == [fn |-> "none", widget |-> None]

Invoked(fn, w) == [fn |-> fn, widget |-> w]

NoUI == [highlighted |-> None, previously_highlighted |-> None]

Unlocked == [w \in WidgetIds |-> "free"]

\* Widget.__init__: draw_data = {}, last_updated = 0.
NewDrawData == [w \in WidgetIds |-> EmptyData]

NewLastUpdated == [w \in WidgetIds |-> 0]

NeverAccepted == [w \in WidgetIds |-> NoNumber]

Init ==
    /\ pc = "entry"
    /\ exc = NoExc
    /\ term = "normal"
    /\ files \in FileSets
    /\ log_messages = <<>>
    /\ printed = <<>>
    /\ widgets = NotBuilt
    /\ ui_state = NoUI
    /\ stop_event = FALSE
    /\ ridx = 1
    /\ data_copy = EmptyData
    /\ lock = Unlocked
    /\ draw_data = NewDrawData
    /\ last_updated = NewLastUpdated
    /\ spc = "not_started"
    /\ sidx = 1
    /\ now = 0
    /\ clock = StartTime
    /\ fg_event = NoEvent
    /\ sched_event = NoEvent
    /\ call_time = 0
    /\ accepted_at = NeverAccepted

(***************************************************************************)
(* The foreground thread: main_entry_point and the start of main_curses.   *)
(***************************************************************************)
\* An exception leaving main_curses outside the render loop's try: it passes
\* through curses.wrapper, whose finally clause restores the terminal
\* (endwin), and reaches the except clauses of main_entry_point.
RaiseOut(e) ==
    /\ exc' = e
    /\ term' = "normal"
    /\ pc' = "handle"

\* main_entry_point line 155: curses.wrapper initialises curses (initscr,
\* noecho, cbreak, keypad) and then calls main_curses, which starts with
\* new objects (lines 15-22).
curses_wrapper ==
    /\ pc = "entry"
    /\ term' = "curses"
    /\ pc' = "discover"
    /\ exc' = NoExc
    /\ log_messages' = <<>>
    /\ widgets' = NotBuilt
    /\ stop_event' = FALSE
    /\ spc' = "not_started"
    /\ fg_event' = NoEvent
    /\ UNCHANGED <<files, printed, ui_state, render_vars, shared_vars, sidx, now,
                   sched_event, call_time, accepted_at, clock>>

\* main_curses lines 24-25: discover_builtin_widgets, discover_custom_widgets.
discover_widgets ==
    /\ pc = "discover"
    /\ \E fails \in BOOLEAN :
          IF fails
          THEN RaiseOut(Exc("OSError", <<>>, "discover"))
          ELSE pc' = "scan" /\ UNCHANGED <<exc, term>>
    /\ fg_event' = NoEvent
    /\ UNCHANGED <<files, log_messages, printed, widgets, ui_state, stop_event,
                   render_vars, shared_vars, sched_vars, clock>>

\* main_curses lines 27-34: the config scan.
scan ==
    /\ pc = "scan"
    /\ LET r == scan_config(files)
       IN  IF r.raised # None
           THEN RaiseOut(Exc(r.raised, <<>>, "scan"))
           ELSE IF ~r.ok
                THEN RaiseOut(Exc("ConfigScanFoundError", r.log, ""))
                ELSE pc' = "setup" /\ UNCHANGED <<exc, term>>
    /\ fg_event' = NoEvent
    /\ UNCHANGED <<files, log_messages, printed, widgets, ui_state, stop_event,
                   render_vars, shared_vars, sched_vars, clock>>

\* main_curses lines 36-43: load_base_config(log_messages), UIState(),
\* init_curses_setup.  (The scan has passed: the theme file loads.)
init_curses_setup ==
    /\ pc = "setup"
    /\ log_messages' = log_messages \o load_config("base", files.theme).log
    /\ ui_state' = NoUI
    /\ term' = "dashboard"
    /\ pc' = "load_modules"
    /\ fg_event' = NoEvent
    /\ UNCHANGED <<exc, files, printed, widgets, stop_event,
                   render_vars, shared_vars, sched_vars, clock>>

\* main_curses lines 46-47: load_builtin_widget_modules, load_custom_widget_modules
\* (an import that fails raises here, outside every try).
load_widget_modules ==
    /\ pc = "load_modules"
    /\ \E fails \in BOOLEAN :
          IF fails
          THEN RaiseOut(Exc("ImportError", <<>>, "load"))
          ELSE pc' = "build" /\ UNCHANGED <<exc, term>>
    /\ fg_event' = NoEvent
    /\ UNCHANGED <<files, log_messages, printed, widgets, ui_state, stop_event,
                   render_vars, shared_vars, sched_vars, clock>>

\* main_curses lines 49-57 with WidgetLoader.build_widgets: any exception of a
\* single widget's load_widget_config or module.build is re-raised as
\* WidgetSourceFileException and the widgets built so far are dropped;
\* otherwise every widget is built, each with draw_data = {} and
\* last_updated = 0 and a free lock.
build_widgets ==
    /\ pc = "build"
    /\ \/ /\ RaiseOut(Exc("WidgetSourceFileException",
                          <<LogMessage("build", LogLevels.ERROR)>>, "build"))
          /\ UNCHANGED <<widgets, render_vars, shared_vars, accepted_at>>
       \/ /\ \E kinds \in [WidgetIds -> WidgetKinds] :
                widgets' = [w \in WidgetIds |-> build(kinds[w])]
          /\ draw_data' = NewDrawData
          /\ last_updated' = NewLastUpdated
          /\ lock' = Unlocked
          /\ accepted_at' = NeverAccepted
          /\ pc' = "size_check"
          /\ UNCHANGED <<exc, term, ridx, data_copy>>
    /\ fg_event' = NoEvent
    /\ UNCHANGED <<files, log_messages, printed, ui_state, stop_event,
                   spc, sidx, now, sched_event, call_time, clock>>

\* A faulty variant of size_check: with no enabled widget the bounding box
\* is taken as empty and reported as TerminalTooSmall.
size_check_empty_box ==
    /\ pc = "size_check"
    /\ IF \A w \in WidgetIds : ~widgets[w].enabled
       THEN \E size \in TermSizes : RaiseOut(TerminalTooSmall(size, 0, 0))
       ELSE \E size \in TermSizes :
               IF terminal_too_small(size, min_height(widgets), min_width(widgets))
               THEN RaiseOut(TerminalTooSmall(size, min_height(widgets), min_width(widgets)))
               ELSE pc' = "start" /\ UNCHANGED <<exc, term>>
    /\ fg_event' = NoEvent
    /\ UNCHANGED <<files, log_messages, printed, widgets, ui_state, stop_event,
                   render_vars, shared_vars, sched_vars, clock>>

\* main_curses lines 59-63: the bounding box (max() of an empty sequence
\* raises ValueError) and the first validate_terminal_size.
size_check ==
    /\ pc = "size_check"
    /\ IF \A w \in WidgetIds : ~widgets[w].enabled
       THEN RaiseOut(Exc("ValueError", <<>>, "max() arg is an empty sequence"))
       ELSE \E size \in TermSizes :
               IF terminal_too_small(size, min_height(widgets), min_width(widgets))
               THEN RaiseOut(TerminalTooSmall(size, min_height(widgets), min_width(widgets)))
               ELSE pc' = "start" /\ UNCHANGED <<exc, term>>
    /\ fg_event' = NoEvent
    /\ UNCHANGED <<files, log_messages, printed, widgets, ui_state, stop_event,
                   render_vars, shared_vars, sched_vars, clock>>

\* main_curses lines 65-77: loading_screen (draw_widget on the enabled
\* widgets, not their bound draw function), then the scheduler thread is
\* created and started.  The session's time starts at StartTime.
start_scheduler ==
    /\ pc = "start"
    /\ spc' = "while"
    /\ clock' = StartTime
    /\ pc' = "frame"
    /\ fg_event' = NoEvent
    /\ UNCHANGED <<exc, life_vars, widgets, ui_state, stop_event, render_vars, shared_vars,
                   sidx, now, sched_event, call_time, accepted_at>>

(***************************************************************************)
(* Input handling.                                                         *)
(***************************************************************************)
\* What getch returns: -1 on the 100 ms timeout, KEY_MOUSE, Escape, the three
\* bound characters, any other key.
Keys == {"timeout", "mouse", "escape", "quit_key", "reload_key", "help_key", "other"}

\* The points (mx, my) getmouse may report: the top left corner of w1, the
\* bottom right corner of w1 (which lies on the top edge of w2), the top left
\* cell of w2 (which lies on the row below the last row of w1), a point
\* outside every widget.
Points == {<<0, 0>>, <<4, 2>>, <<0, 2>>, <<0, 5>>}

\* A faulty variant of hit: the bottom and right edges are excluded.
hit_exclusive(w, mx, my) ==
    LET y1 == Dims[w].y
        y2 == y1 + Dims[w].height
        x1 == Dims[w].x
        x2 == x1 + Dims[w].width
    IN  y1 <= my /\ my < y2 /\ x1 <= mx /\ mx < x2

\* A faulty variant of hit: the row below the widget's last row is excluded.
hit_without_row_below(w, mx, my) ==
    LET y1 == Dims[w].y
        y2 == y1 + Dims[w].height
        x1 == Dims[w].x
        x2 == x1 + Dims[w].width
    IN  y1 <= my /\ my < y2 /\ x1 <= mx /\ mx <= x2

\* switch_windows line 1014: the hit test.
hit(w, mx, my) ==
    LET y1 == Dims[w].y
        y2 == y1 + Dims[w].height
        x1 == Dims[w].x
        x2 == x1 + Dims[w].width
    IN  y1 <= my /\ my <= y2 /\ x1 <= mx /\ mx <= x2

\* A faulty variant of switch_windows: previously_highlighted is assigned
\* after highlighted has been changed.
switch_windows_late_record(ui, mx, my) ==
    LET hits == {i \in 1..Len(WidgetOrder) : hit(WidgetOrder[i], mx, my)}
        new == IF hits = {} THEN None
               ELSE WidgetOrder[CHOOSE i \in hits : \A j \in hits : i <= j]
    IN  [previously_highlighted |-> new, highlighted |-> new]

\* A faulty variant of switch_windows: disabled widgets are passed over.
switch_windows_enabled_only(ui, mx, my) ==
    LET hits == {i \in 1..Len(WidgetOrder) :
                    hit(WidgetOrder[i], mx, my) /\ widgets[WidgetOrder[i]].enabled}
    IN  [previously_highlighted |-> ui.highlighted,
         highlighted |-> IF hits = {} THEN None
                         ELSE WidgetOrder[CHOOSE i \in hits : \A j \in hits : i <= j]]

\* switch_windows: the UIState after a press at (mx, my).
switch_windows(ui, mx, my) ==
    LET hits == {i \in 1..Len(WidgetOrder) : hit(WidgetOrder[i], mx, my)}
    IN  [previously_highlighted |-> ui.highlighted,
         highlighted |-> IF hits = {} THEN None
                         ELSE WidgetOrder[CHOOSE i \in hits : \A j \in hits : i <= j]]

\* handle_mouse_input: the UIState after it, and whether mouse_action of the
\* highlighted widget was called.
handle_mouse_input(ui, key, pressed, mx, my) ==
    IF key = "mouse" /\ pressed
    THEN LET u == switch_windows(ui, mx, my)
         IN  [ui |-> u, called |-> u.highlighted # None]
    ELSE [ui |-> ui, called |-> FALSE]

\* A faulty variant of handle_key_input: the quit and reload keys are
\* looked at before the highlighted widget.
handle_key_input_global_first(ui, key) ==
    IF key = "escape"
    THEN [ui |-> [previously_highlighted |-> ui.highlighted, highlighted |-> None],
          raises |-> "none", called |-> FALSE]
    ELSE IF key = "quit_key"
         THEN [ui |-> ui, raises |-> "StopException", called |-> FALSE]
         ELSE IF key = "reload_key"
              THEN [ui |-> ui, raises |-> "RestartException", called |-> FALSE]
              ELSE [ui |-> ui, raises |-> "none", called |-> ui.highlighted # None]

\* A faulty variant of handle_key_input: keyboard_action is called for key
\* presses only, not for the timeout value or KEY_MOUSE.
handle_key_input_keys_only(ui, key) ==
    IF key = "escape"
    THEN [ui |-> [previously_highlighted |-> ui.highlighted, highlighted |-> None],
          raises |-> "none", called |-> FALSE]
    ELSE IF ui.highlighted = None
         THEN [ui |-> ui,
               raises |-> IF key = "quit_key" THEN "StopException"
                          ELSE IF key = "help_key" THEN "none"
                          ELSE IF key = "reload_key" THEN "RestartException"
                          ELSE "none",
               called |-> FALSE]
         ELSE [ui |-> ui, raises |-> "none", called |-> key \notin {"timeout", "mouse"}]

\* handle_key_input: the UIState after it, the exception it raises ("none"
\* if none) and whether keyboard_action of the highlighted widget was called.
handle_key_input(ui, key) ==
    IF key = "escape"
    THEN [ui |-> [previously_highlighted |-> ui.highlighted, highlighted |-> None],
          raises |-> "none", called |-> FALSE]
    ELSE IF ui.highlighted = None
         THEN [ui |-> ui,
               raises |-> IF key = "quit_key" THEN "StopException"
                          ELSE IF key = "help_key" THEN "none"
                          ELSE IF key = "reload_key" THEN "RestartException"
                          ELSE "none",
               called |-> FALSE]
         ELSE [ui |-> ui, raises |-> "none", called |-> TRUE]

\* History of the start of a frame: the plugin function invoked last (e),
\* all the plugin functions invoked, in order (calls), the terminal size
\* getmaxyx reported, the key getch returned and, for KEY_MOUSE, whether
\* button 1 was pressed and the point getmouse reported.
FrameEvent(e, calls, size, key, pressed, pt) ==
    [fn |-> e.fn, widget |-> e.widget, calls |-> calls,
     size |-> size, key |-> key, pressed |-> pressed, pt |-> pt]

\* An exception raised inside the render loop's try: both except clauses
\* begin with cleanup_curses_setup.
RaiseInLoop(e) ==
    /\ exc' = e
    /\ pc' = "cleanup"

\* main_curses lines 83-97, the start of a frame: validate_terminal_size,
\* getch, handle_mouse_input, handle_key_input.  A bound mouse or keyboard
\* function of a plugin may raise (fault).  The test of stop_event at line 96
\* never succeeds: only cleanup_curses_setup sets it.
frame ==
    /\ pc = "frame"
    /\ \E size \in TermSizes :
          IF terminal_too_small(size, min_height(widgets), min_width(widgets))
          THEN /\ RaiseInLoop(TerminalTooSmall(size, min_height(widgets), min_width(widgets)))
               /\ fg_event' = FrameEvent(NoEvent, <<>>, size, "unread", FALSE, <<0, 0>>)
               /\ UNCHANGED ui_state
          ELSE \E key \in Keys :
                  \E pressed \in IF key = "mouse" THEN BOOLEAN ELSE {FALSE} :
                  \E pt \in IF pressed THEN Points ELSE {<<0, 0>>} :
                  LET m == handle_mouse_input(ui_state, key, pressed, pt[1], pt[2])
                      k == handle_key_input(m.ui, key)
                  IN  \E fault \in {"none"} \cup (IF m.called THEN {"mouse"} ELSE {})
                                            \cup (IF k.called THEN {"keyboard"} ELSE {}) :
                      IF fault = "mouse"
                      THEN /\ ui_state' = m.ui
                           /\ fg_event' = FrameEvent(Invoked("mouse", m.ui.highlighted),
                                                      <<"mouse">>, size, key, pressed, pt)
                           /\ RaiseInLoop(Exc("Exception", <<>>, "plugin"))
                      ELSE /\ ui_state' = k.ui
                           /\ fg_event' = FrameEvent(IF k.called THEN Invoked("keyboard", k.ui.highlighted)
                                                      ELSE IF m.called THEN Invoked("mouse", m.ui.highlighted)
                                                      ELSE NoEvent,
                                                      (IF m.called THEN <<"mouse">> ELSE <<>>)
                                                         \o (IF k.called THEN <<"keyboard">> ELSE <<>>),
                                                      size, key, pressed, pt)
                           /\ IF fault = "keyboard"
                              THEN RaiseInLoop(Exc("Exception", <<>>, "plugin"))
                              ELSE IF k.raises # "none"
                                   THEN RaiseInLoop(Exc(k.raises,
                                           IF k.raises = "StopException" THEN log_messages ELSE <<>>, ""))
                                   ELSE pc' = "redraw" /\ UNCHANGED exc
    /\ UNCHANGED <<life_vars, widgets, stop_event, render_vars, shared_vars, sched_vars, clock>>

(***************************************************************************)
(* The redraw pass (main_curses lines 99-119).                             *)
(***************************************************************************)
rw == WidgetOrder[ridx]

NextWidget ==
    /\ ridx' = ridx + 1
    /\ pc' = "redraw"

\* Widget.draw, called by the redraw pass on widget w: the bound draw
\* function is invoked if the widget is enabled, and may raise.
widget_draw(w) ==
    IF draw_invokes(widgets[w])
    THEN /\ fg_event' = Invoked("draw", w)
         /\ \E fault \in BOOLEAN :
               IF fault
               THEN RaiseInLoop(Exc("Exception", <<>>, "plugin")) /\ ridx' = 1
               ELSE NextWidget /\ UNCHANGED exc
    ELSE /\ fg_event' = NoEvent
         /\ NextWidget
         /\ UNCHANGED exc

\* Lines 100-109 and 116-119: the loop head.  After the last widget,
\* update_screen ends the frame.
redraw ==
    /\ pc = "redraw"
    /\ IF ridx > Len(WidgetOrder)
       THEN pc' = "frame" /\ ridx' = 1 /\ fg_event' = NoEvent /\ UNCHANGED exc
       ELSE IF ~updatable(widgets[rw])
            THEN widget_draw(rw)
            ELSE IF Truthy(draw_data[rw])
                 THEN pc' = "acquire" /\ fg_event' = NoEvent /\ UNCHANGED <<ridx, exc>>
                 ELSE NextWidget /\ fg_event' = NoEvent /\ UNCHANGED exc
    /\ UNCHANGED <<life_vars, widgets, ui_state, stop_event, data_copy, lock,
                   shared_vars, sched_vars, clock>>

\* A faulty variant of acquire: the lock is only granted while no update
\* call is in progress, as if the scheduler held it across the call.
acquire_after_update ==
    /\ pc = "acquire"
    /\ lock[rw] = "free"
    /\ spc # "call"
    /\ lock' = [lock EXCEPT ![rw] = "render"]
    /\ pc' = "copy"
    /\ fg_event' = NoEvent
    /\ UNCHANGED <<exc, life_vars, widgets, ui_state, stop_event, ridx, data_copy,
                   shared_vars, sched_vars, clock>>

\* Line 110: with widget.lock (acquire).
acquire ==
    /\ pc = "acquire"
    /\ lock[rw] = "free"
    /\ lock' = [lock EXCEPT ![rw] = "render"]
    /\ pc' = "copy"
    /\ fg_event' = NoEvent
    /\ UNCHANGED <<exc, life_vars, widgets, ui_state, stop_event, ridx, data_copy,
                   shared_vars, sched_vars, clock>>

\* What widget.draw_data.copy() returns for the value d of draw_data.
snapshot(d) == d

\* A faulty variant of copy: the lock is not released after the copy.
copy_without_release ==
    /\ pc = "copy"
    /\ data_copy' = snapshot(draw_data[rw])
    /\ pc' = "use"
    /\ fg_event' = NoEvent
    /\ UNCHANGED <<exc, life_vars, widgets, ui_state, stop_event, ridx, lock,
                   shared_vars, sched_vars, clock>>

\* Line 111: data_copy = widget.draw_data.copy(), and the end of the with
\* block (release).
copy ==
    /\ pc = "copy"
    /\ data_copy' = snapshot(draw_data[rw])
    /\ lock' = [lock EXCEPT ![rw] = "free"]
    /\ pc' = "use"
    /\ fg_event' = NoEvent
    /\ UNCHANGED <<exc, life_vars, widgets, ui_state, stop_event, ridx,
                   shared_vars, sched_vars, clock>>

\* Line 113: the argument [widget.draw_data['__error__']] reads the shared
\* draw_data again; the subscript raises (KeyError, or TypeError on a list)
\* when the value no longer holds the key.
error_text_raises(d) == ~d.has_error

\* Lines 112-115: the error banner (display_error calls draw_widget, not the
\* bound draw function) or widget.draw with the copy.
use ==
    /\ pc = "use"
    /\ IF data_copy.has_error
       THEN /\ fg_event' = NoEvent
            /\ IF error_text_raises(draw_data[rw])
               THEN RaiseInLoop(Exc("Exception", <<>>, "draw_data['__error__']")) /\ ridx' = 1
               ELSE NextWidget /\ UNCHANGED exc
       ELSE widget_draw(rw)
    /\ data_copy' = EmptyData
    /\ UNCHANGED <<life_vars, widgets, ui_state, stop_event, lock,
                   shared_vars, sched_vars, clock>>

(***************************************************************************)
(* The except clauses of the render loop (main_curses lines 120-149).      *)
(***************************************************************************)
\* The exceptions the first except clause names.
NamedSignals == {"RestartException", "ConfigScanFoundError", "ConfigFileNotFoundError",
                 "ConfigSpecificException", "StopException", "TerminalTooSmall",
                 "WidgetSourceFileException"}

\* A faulty variant of cleanup_curses_setup: the thread is joined without
\* stop_event being set.
cleanup_without_stop ==
    /\ pc = "cleanup"
    /\ pc' = "join"
    /\ fg_event' = NoEvent
    /\ UNCHANGED <<exc, life_vars, widgets, ui_state, stop_event, render_vars,
                   shared_vars, sched_vars, clock>>

\* cleanup_curses_setup line 741: stop_event.set()
cleanup_curses_setup ==
    /\ pc = "cleanup"
    /\ stop_event' = TRUE
    /\ pc' = "join"
    /\ fg_event' = NoEvent
    /\ UNCHANGED <<exc, life_vars, widgets, ui_state, render_vars,
                   shared_vars, sched_vars, clock>>

\* A faulty variant of join: no timeout, the call returns only when the
\* scheduler thread has ended.
join_without_timeout ==
    /\ pc = "join"
    /\ spc = "done"
    /\ pc' = "endwin"
    /\ fg_event' = NoEvent
    /\ UNCHANGED <<exc, life_vars, widgets, ui_state, stop_event, render_vars,
                   shared_vars, sched_vars, clock>>

\* cleanup_curses_setup line 742: reloader_thread.join(timeout=1) returns when
\* the thread has ended, or after the timeout when it is inside an update
\* call (every other step of the scheduler is far shorter than the timeout).
join ==
    /\ pc = "join"
    /\ spc \in {"done", "call"}
    /\ pc' = "endwin"
    /\ fg_event' = NoEvent
    /\ UNCHANGED <<exc, life_vars, widgets, ui_state, stop_event, render_vars,
                   shared_vars, sched_vars, clock>>

\* cleanup_curses_setup lines 743-746 (endwin), then line 134 (re-raise) or
\* lines 141-149 (size check again, else UnknownException).  main_curses is
\* left: its widgets and locals are no longer reachable.
endwin ==
    /\ pc = "endwin"
    /\ term' = "normal"
    /\ pc' = "handle"
    /\ IF exc.type \in NamedSignals
       THEN UNCHANGED exc
       ELSE \E size \in TermSizes :
               IF terminal_too_small(size, min_height(widgets), min_width(widgets))
               THEN exc' = TerminalTooSmall(size, min_height(widgets), min_width(widgets))
               ELSE exc' = Exc("UnknownException", log_messages, exc.detail)
    /\ ui_state' = NoUI
    /\ draw_data' = NewDrawData
    /\ last_updated' = NewLastUpdated
    /\ accepted_at' = NeverAccepted
    /\ sidx' = 1
    /\ now' = 0
    /\ call_time' = 0
    /\ sched_event' = NoEvent
    /\ fg_event' = NoEvent
    /\ UNCHANGED <<files, log_messages, printed, widgets, stop_event, render_vars, spc, clock>>

(***************************************************************************)
(* main_entry_point lines 152-189: the except clauses.                     *)
(***************************************************************************)
\* The exceptions main_entry_point catches and reports; every other one but
\* RestartException leaves the process uncaught.
Reported == {"ConfigScanFoundError", "ConfigFileNotFoundError", "StopException",
             "TerminalTooSmall", "WidgetSourceFileException", "UnknownException"}

\* A faulty variant of restart: the two except clauses that only print (lines
\* 175-183) are not followed by the break of line 189, so that the loop
\* starts another session after them too.
restart_after_report ==
    /\ pc = "handle"
    /\ exc.type \in {"RestartException", "TerminalTooSmall", "WidgetSourceFileException"}
    /\ pc' = "entry"
    /\ files' \in FileSets
    /\ exc' = NoExc
    /\ log_messages' = <<>>
    /\ widgets' = NotBuilt
    /\ stop_event' = FALSE
    /\ spc' = "not_started"
    /\ clock' = StartTime
    /\ fg_event' = NoEvent
    /\ UNCHANGED <<term, printed, ui_state, render_vars, shared_vars, sidx, now,
                   sched_event, call_time, accepted_at>>

\* A Restart re-enters the loop (line 158): the finished session's objects
\* are dropped, and the next session reads the files anew.
restart ==
    /\ pc = "handle"
    /\ exc.type = "RestartException"
    /\ pc' = "entry"
    /\ files' \in FileSets
    /\ exc' = NoExc
    /\ log_messages' = <<>>
    /\ widgets' = NotBuilt
    /\ stop_event' = FALSE
    /\ spc' = "not_started"
    /\ clock' = StartTime
    /\ fg_event' = NoEvent
    /\ UNCHANGED <<term, printed, ui_state, render_vars, shared_vars, sidx, now,
                   sched_event, call_time, accepted_at>>

\* Every other exception ends the process: the reported ones after their
\* report is printed (UnknownException is printed and raised again).
terminate ==
    /\ pc = "handle"
    /\ exc.type # "RestartException"
    /\ pc' = "terminated"
    /\ printed' = IF exc.type \in Reported
                  THEN Append(printed, [what |-> exc.type, log |-> exc.log, term |-> term])
                  ELSE printed
    /\ fg_event' = NoEvent
    /\ UNCHANGED <<exc, term, files, log_messages, widgets, ui_state, stop_event,
                   render_vars, shared_vars, sched_vars, clock>>

(***************************************************************************)
(* The scheduler thread: reload_widget_scheduler (base.py 1064-1091).      *)
(***************************************************************************)
\* The positions of the foreground thread at which the session's scheduler
\* thread can run (from its start to the end of main_curses).
SessionPcs == {"frame", "redraw", "acquire", "copy", "use", "cleanup", "join", "endwin"}

\* Line 1070: reloadable_widgets = [w for w in widget_list if w.updatable()]
reloadable_widgets == SelectSeq(WidgetOrder, LAMBDA w : updatable(widgets[w]))

sw == reloadable_widgets[sidx]

\* A faulty variant of due: the comparison is off by one time unit.
due_one_early(t, last, interval) == t - last >= interval.value - 1

\* Line 1083: now - widget.last_updated >= widget.interval
due(t, last, interval) == t - last >= interval.value

\* A faulty variant of store: the object draw_data refers to is updated in
\* place, and only its lines have been replaced so far.
store_in_place(old, new) == [has_error |-> old.has_error, body |-> new.body]

\* The value of draw_data after the assignment of line 1085 or 1088: the
\* attribute is rebound to the new object in one store.
store(old, new) == new

\* A faulty variant of visit: stop_event is not tested in the for loop.
visit_without_stop_test ==
    /\ spc = "for"
    /\ pc \in SessionPcs
    /\ IF sidx > Len(reloadable_widgets)
       THEN /\ spc' = "while"
            /\ sidx' = 1
            /\ now' = 0
            /\ sched_event' = NoEvent
            /\ UNCHANGED call_time
       ELSE IF due(now, last_updated[sw], widgets[sw].interval)
            THEN /\ spc' = "call"
                 /\ call_time' = clock
                 /\ sched_event' = IF update_invokes(widgets[sw])
                                   THEN Invoked("update", sw) ELSE NoEvent
                 /\ UNCHANGED <<sidx, now>>
            ELSE /\ sidx' = sidx + 1
                 /\ sched_event' = NoEvent
                 /\ UNCHANGED <<spc, now, call_time>>
    /\ UNCHANGED <<fg_vars, shared_vars, accepted_at, clock>>

\* Lines 1072-1073: the while test (after the sleep of line 1091, except the
\* first time), then now = time.time().
tick ==
    /\ spc = "while"
    /\ pc \in SessionPcs
    /\ IF stop_event
       THEN spc' = "done" /\ UNCHANGED now
       ELSE spc' = "for" /\ now' = clock
    /\ sched_event' = NoEvent
    /\ UNCHANGED <<fg_vars, shared_vars, sidx, call_time, accepted_at, clock>>

\* Lines 1075-1084: the for loop head, up to the call of widget.update; at
\* the end of the loop (or on stop_event), line 1091.
visit ==
    /\ spc = "for"
    /\ pc \in SessionPcs
    /\ IF sidx > Len(reloadable_widgets) \/ stop_event
       THEN /\ spc' = "while"
            /\ sidx' = 1
            /\ now' = 0
            /\ sched_event' = NoEvent
            /\ UNCHANGED call_time
       ELSE IF due(now, last_updated[sw], widgets[sw].interval)
            THEN /\ spc' = "call"
                 /\ call_time' = clock
                 /\ sched_event' = IF update_invokes(widgets[sw])
                                   THEN Invoked("update", sw) ELSE NoEvent
                 /\ UNCHANGED <<sidx, now>>
            ELSE /\ sidx' = sidx + 1
                 /\ sched_event' = NoEvent
                 /\ UNCHANGED <<spc, now, call_time>>
    /\ UNCHANGED <<fg_vars, shared_vars, accepted_at, clock>>

\* A faulty variant of update_returned: last_updated is stamped with the time
\* at which the call returned.
update_returned_stamped_late(w, result) ==
    /\ draw_data' = [draw_data EXCEPT ![w] = store(@, result)]
    /\ last_updated' = [last_updated EXCEPT ![w] = clock]
    /\ accepted_at' = [accepted_at EXCEPT ![w] = Number(call_time)]
    /\ spc' = "for"
    /\ sidx' = sidx + 1

\* Lines 1085-1086: the update call returned; draw_data and last_updated are
\* assigned.
update_returned(w, result) ==
    /\ draw_data' = [draw_data EXCEPT ![w] = store(@, result)]
    /\ last_updated' = [last_updated EXCEPT ![w] = now]
    /\ accepted_at' = [accepted_at EXCEPT ![w] = Number(call_time)]
    /\ spc' = "for"
    /\ sidx' = sidx + 1

\* A faulty variant of update_raised: no except clause, the exception ends
\* the scheduler thread.
update_raised_uncaught(w, e) ==
    /\ spc' = "done"
    /\ UNCHANGED <<draw_data, last_updated, accepted_at, sidx>>

\* A faulty variant of update_raised: last_updated is advanced for a failed
\* call as well.
update_raised_stamped(w, e) ==
    /\ draw_data' = [draw_data EXCEPT ![w] = store(@, ErrorMarker(e))]
    /\ last_updated' = [last_updated EXCEPT ![w] = now]
    /\ spc' = "for"
    /\ sidx' = sidx + 1
    /\ UNCHANGED accepted_at

\* Lines 1087-1088: the update call raised; the except clause stores the
\* error marker and the for loop goes on.
update_raised(w, e) ==
    /\ draw_data' = [draw_data EXCEPT ![w] = store(@, ErrorMarker(e))]
    /\ spc' = "for"
    /\ sidx' = sidx + 1
    /\ UNCHANGED <<last_updated, accepted_at>>

\* The end of the update call in progress.
update_call ==
    /\ spc = "call"
    /\ pc \in SessionPcs
    /\ \/ \E result \in UpdateResults : update_returned(sw, result)
       \/ \E e \in UpdateErrors : update_raised(sw, e)
    /\ call_time' = 0
    /\ sched_event' = NoEvent
    /\ UNCHANGED <<fg_vars, now, clock>>

\* Time passes while an update call is in progress and while the scheduler
\* sleeps (line 1091); the statements in between take no time on the scale
\* of an interval.
time_passes ==
    /\ pc \in SessionPcs
    /\ spc \in {"while", "call"}
    /\ clock < MaxTime
    /\ clock' = clock + 1
    /\ UNCHANGED <<fg_vars, shared_vars, sched_vars>>

(***************************************************************************)
(* The specification.                                                      *)
(***************************************************************************)
Foreground ==
    \/ curses_wrapper
    \/ discover_widgets
    \/ scan
    \/ init_curses_setup
    \/ load_widget_modules
    \/ build_widgets
    \/ size_check
    \/ start_scheduler
    \/ frame
    \/ redraw
    \/ acquire
    \/ copy
    \/ use
    \/ cleanup_curses_setup
    \/ join
    \/ endwin
    \/ restart
    \/ terminate

Scheduler ==
    \/ tick
    \/ visit
    \/ update_call

Next == Foreground \/ Scheduler \/ time_passes

Spec == Init /\ [][Next]_vars

\* The scheduler thread keeps being scheduled while the process runs, and
\* the update call in progress ends (it returns or it raises).
FairSpec == Spec /\ WF_vars(Scheduler)

(***************************************************************************)
(* Properties.                                                             *)
(***************************************************************************)
\* The positions of the foreground thread after the config scan has passed.
PastScan == {"setup", "load_modules", "build", "size_check", "start"} \cup SessionPcs

\* Whether loading the files yields an Error-level entry (a validation Error
\* or a YAML parse error) in the theme file or in a widget file.
ErrorFound(fs) ==
    \/ fs.theme \in {"error", "warn_error", "yamlerr"}
    \/ \E w \in WidgetIds : fs.widgets[w] \in {"error", "yamlerr"}

\* Whether a file is missing (the scan is left by ConfigFileNotFoundError).
FileMissing(fs) == fs.theme = "missing" \/ \E w \in WidgetIds : fs.widgets[w] = "missing"

\* Whether the scan is left by an exception: a file is missing, or loading a
\* file raises an exception the loaders do not catch.
ScanRaises(fs) ==
    \/ FileMissing(fs)
    \/ fs.theme = "scanerr"
    \/ \E w \in WidgetIds : fs.widgets[w] = "scanerr"

\* The foreground thread always goes on (getch returns after 100 ms at the
\* latest) and so do the scheduler's own statements, but a bound update
\* function may never return: no fairness for update_call.
StuckUpdateSpec == Spec /\ WF_vars(Foreground) /\ WF_vars(tick \/ visit)

(***************************************************************************)
(* Validation of the fields of a configuration file (Config.__init__ and   *)
(* BaseConfig.__init__), checked on its own: a file is loaded, validated,  *)
(* and for a widget file without Errors the widget is built.               *)
(*                                                                         *)
(* A value of a YAML file is described by its Python type:                 *)
(*   "none"   the key is absent (or null)                                  *)
(*   "str"    a string          "true", "false"   a bool                   *)
(*   "int"    a non-zero int    "zero"   the int 0    "float"   a float    *)
(***************************************************************************)
\* Config.__init__ lines 283-292: the fields list, in its order.
WidgetFields == <<"name", "title", "enabled", "interval", "height", "width", "y", "x">>

\* The expected_type of each field; "number" is (int, float).
ExpectedType ==
    [name |-> "str", title |-> "str", enabled |-> "bool", interval |-> "number",
     height |-> "int", width |-> "int", y |-> "int", x |-> "int"]

\* Python's isinstance(value, expected_type): bool is a subclass of int.
isinstance(v, t) ==
    CASE t = "str"    -> v = "str"
      [] t = "bool"   -> v \in {"true", "false"}
      [] t = "int"    -> v \in {"int", "zero", "true", "false"}
      [] t = "number" -> v \in {"int", "zero", "float", "true", "false"}

\* A message of the log that names the field it is about.
FieldMessage(file, level, field) == [file |-> file, level |-> level, field |-> field]

\* The number a numeric YAML value compares equal to (False == 0, True == 1).
python_number(v) == IF v \in {"zero", "false"} THEN 0 ELSE 1

\* The interval of a Config that is neither None nor a number.
Mistyped == [is_none |-> FALSE, value |-> 0 - 1]

\* Config.__init__: the messages appended to log_messages (one Error for
\* each field that is None or fails isinstance) and the attributes enabled
\* and interval of the new object.
Config_init(file, yaml) ==
    LET bad == SelectSeq(WidgetFields,
                         LAMBDA f : yaml[f] = "none" \/ ~isinstance(yaml[f], ExpectedType[f]))
    IN  [log      |-> [i \in 1..Len(bad) |-> FieldMessage(file, LogLevels.ERROR, bad[i])],
         enabled  |-> yaml.enabled,
         interval |-> IF yaml.interval = "none" THEN NoNumber
                      ELSE IF isinstance(yaml.interval, "number")
                           THEN config_interval(python_number(yaml.interval))
                           ELSE Mistyped]

\* The widget files that are loaded: every field is well typed, absent, or of
\* another type.
WidgetYamls ==
    [name : {"str", "none", "int"}, title : {"str", "none", "int"},
     enabled : {"true", "false", "none", "str"},
     interval : {"int", "zero", "float", "none", "str", "true"},
     height : {"int", "none", "str", "true"}, width : {"int", "none", "str", "true"},
     y : {"int", "none", "str", "true"}, x : {"int", "none", "str", "true"}]

\* BaseConfig.__init__: the six colours, the flag and the three keys, in the
\* order in which they are validated.
ColourFields == <<"background_color", "foreground_color", "primary_color",
                  "secondary_color", "loading_color", "error_color">>

FlagField == "use_standard_terminal_background"

KeyFields == <<"quit_key", "reload_key", "help_key">>

ThemeFields == ColourFields \o <<FlagField>> \o KeyFields

Range(s) == {s[i] : i \in 1..Len(s)}

\* The values of a colour in base.yaml:
\*   "rgb"          a mapping with the ints r, g, b
\*   "rgb_strings"  a mapping whose components are numeric strings
\*   "no_r"         a mapping without the key r
\*   "r_text"       a mapping whose r is a string that is not a number
\*   "r_null"       a mapping whose r is null
\*   "text"         a string instead of a mapping
ColourValues == {"none", "rgb", "rgb_strings", "no_r", "r_text", "r_null", "text"}

FlagValues == {"none", "true", "false", "str"}

\* The values of a key in base.yaml:
\*   "char"       one letter or digit     "two_chars"  two letters
\*   "symbol"     one other character     "empty"      the empty string
\*   "int"        an int instead of a string
KeyValues == {"none", "char", "two_chars", "symbol", "empty", "int"}

\* BaseStandardFallBackConfig: the default palette (one colour per field),
\* use_standard_terminal_background = True, and the three keys.
BaseStandardFallBackConfig ==
    [f \in Range(ThemeFields) |->
        CASE f = "quit_key"   -> "q"
          [] f = "reload_key" -> "r"
          [] f = "help_key"   -> "h"
          [] f = FlagField    -> "true"
          [] OTHER            -> "default"]

\* RGBColor.add_rgb_color_from_dict: RGBColor(int(color['r']), ...): the
\* exception it raises, or None.
add_rgb_color_from_dict(v) ==
    CASE v = "no_r"   -> "KeyError"
      [] v = "r_text" -> "ValueError"
      [] v = "r_null" -> "TypeError"
      [] v = "text"   -> "TypeError"
      [] OTHER        -> None

\* len(key) and key.isalpha() or key.isdigit() of a string key.
key_len(v) == CASE v = "empty" -> 0 [] v = "two_chars" -> 2 [] OTHER -> 1

key_isalnum(v) == v \in {"char", "two_chars"}

\* BaseConfig.__init__, the block of one field: the exception that leaves
\* it (or None), the messages it appends, and the value of the attribute.
validate_theme_field(f, v) ==
    LET default == BaseStandardFallBackConfig[f]
        Warning == FieldMessage("base", LogLevels.WARNING, f)
        Error   == FieldMessage("base", LogLevels.ERROR, f)
    IN  IF v = "none"
        THEN [raised |-> None, log |-> <<Warning>>, value |-> default]
        ELSE IF f \in Range(ColourFields)
        THEN CASE add_rgb_color_from_dict(v) = None ->
                    [raised |-> None, log |-> <<>>, value |-> v]
               [] add_rgb_color_from_dict(v) \in {"KeyError", "ValueError"} ->
                    [raised |-> None, log |-> <<Error>>, value |-> default]
               [] OTHER ->
                    [raised |-> add_rgb_color_from_dict(v), log |-> <<>>, value |-> default]
        ELSE IF f = FlagField
        THEN [raised |-> None,
              log    |-> IF isinstance(v, "bool") THEN <<>> ELSE <<Error>>,
              value  |-> v]
        ELSE IF v = "int"
             THEN [raised |-> "TypeError", log |-> <<>>, value |-> default]
             ELSE [raised |-> None,
                   log    |-> (IF key_len(v) # 1 THEN <<Error>> ELSE <<>>)
                                 \o (IF ~key_isalnum(v) THEN <<Error>> ELSE <<>>),
                   value  |-> v]

RECURSIVE BaseConfig_from(_, _, _, _)
BaseConfig_from(yaml, i, log, config) ==
    IF i > Len(ThemeFields)
    THEN [raised |-> None, log |-> log, config |-> config]
    ELSE LET f == ThemeFields[i]
             r == validate_theme_field(f, yaml[f])
         IN  IF r.raised # None
             THEN [raised |-> r.raised, log |-> log, config |-> config]
             ELSE BaseConfig_from(yaml, i + 1, log \o r.log, [config EXCEPT ![f] = r.value])

\* BaseConfig.__init__: the attributes start as the defaults; the fields are
\* validated in order; an exception no block catches leaves the constructor.
BaseConfig_init(yaml) == BaseConfig_from(yaml, 1, <<>>, BaseStandardFallBackConfig)

\* A base.yaml in which every field is present and valid.
GoodTheme ==
    [f \in Range(ThemeFields) |->
        IF f \in Range(ColourFields) THEN "rgb" ELSE IF f = FlagField THEN "true" ELSE "char"]

ThemeValues(f) ==
    IF f \in Range(ColourFields) THEN ColourValues
    ELSE IF f = FlagField THEN FlagValues ELSE KeyValues

OneFieldChanged(yaml) ==
    UNION {{[yaml EXCEPT ![f] = v] : v \in ThemeValues(f)} : f \in Range(ThemeFields)}

\* The theme files that are loaded: at most two fields differ from GoodTheme.
ThemeYamls == UNION {OneFieldChanged(yaml) : yaml \in OneFieldChanged(GoodTheme)}

\* The object no loader has constructed yet.
NoConfig == [constructed |-> FALSE]

\* The files of the validation runs: a widget file (of w1) or base.yaml, and
\* the Config or BaseConfig constructed from it.
ConfigFiles ==
    {[kind |-> "widget", yaml |-> y, config |-> NoConfig] : y \in WidgetYamls}
       \cup {[kind |-> "theme", yaml |-> y, config |-> NoConfig] : y \in ThemeYamls}

ValidationInit ==
    /\ pc = "load"
    /\ files \in ConfigFiles
    /\ exc = NoExc
    /\ term = "normal"
    /\ log_messages = <<>>
    /\ printed = <<>>
    /\ widgets = NotBuilt
    /\ ui_state = NoUI
    /\ stop_event = FALSE
    /\ ridx = 1
    /\ data_copy = EmptyData
    /\ lock = Unlocked
    /\ draw_data = NewDrawData
    /\ last_updated = NewLastUpdated
    /\ spc = "not_started"
    /\ sidx = 1
    /\ now = 0
    /\ clock = StartTime
    /\ fg_event = NoEvent
    /\ sched_event = NoEvent
    /\ call_time = 0
    /\ accepted_at = NeverAccepted

\* ConfigLoader.load_widget_config line 962: Config(file_name, log_messages,
\* **pure_yaml).
load_widget_config ==
    /\ pc = "load"
    /\ files.kind = "widget"
    /\ LET c == Config_init("w1", files.yaml)
       IN  /\ log_messages' = log_messages \o c.log
           /\ files' = [files EXCEPT !.config = [enabled |-> c.enabled, interval |-> c.interval]]
    /\ pc' = "loaded"
    /\ UNCHANGED <<exc, term, printed, widgets, ui_state, stop_event, render_vars,
                   fg_event, shared_vars, sched_vars, clock>>

\* ConfigLoader.load_base_config line 951: BaseConfig(log_messages,
\* **pure_yaml).
load_base_config ==
    /\ pc = "load"
    /\ files.kind = "theme"
    /\ LET c == BaseConfig_init(files.yaml)
       IN  /\ log_messages' = log_messages \o c.log
           /\ IF c.raised # None
              THEN /\ exc' = Exc(c.raised, <<>>, "BaseConfig")
                   /\ pc' = "raised"
                   /\ UNCHANGED files
              ELSE /\ files' = [files EXCEPT !.config = c.config]
                   /\ pc' = "loaded"
                   /\ UNCHANGED exc
    /\ UNCHANGED <<term, printed, widgets, ui_state, stop_event, render_vars,
                   fg_event, shared_vars, sched_vars, clock>>

\* The widget of a file that passed the scan (no Error) is built: the
\* plugin's build passes config.interval to Widget.__init__ and may or may
\* not bind an update function.
build_widget ==
    /\ pc = "loaded"
    /\ files.kind = "widget"
    /\ ~contains_error(log_messages)
    /\ \E update_func \in BOOLEAN :
          widgets' = [widgets EXCEPT !["w1"] =
                         build([update_func  |-> update_func,
                                raw_interval |-> python_number(files.yaml.interval),
                                enabled      |-> files.yaml.enabled = "true"])]
    /\ pc' = "built"
    /\ UNCHANGED <<exc, life_vars, ui_state, stop_event, render_vars,
                   fg_event, shared_vars, sched_vars, clock>>

ValidationNext ==
    \/ load_widget_config
    \/ load_base_config
    \/ build_widget

ValidationSpec == ValidationInit /\ [][ValidationNext]_vars

(***************************************************************************)
(* The to-do widget (src/widgets/todo.py): render_todos, checked on its    *)
(* own.  w1 is a to-do widget whose draw_data holds the list of to-dos and *)
(* selected_line; its draw function renders them.  A Python list is a      *)
(* record: id names the object, items holds its elements.                  *)
(***************************************************************************)
\* The longest list of to-dos and the largest max_render.
MaxTodos == 5

MaxRender == 3

TodoItems == {"a", "b", "c"}

Ellipsis == "..."

\* The lists of to-dos of at most MaxTodos items.
TodoLists == UNION {[1..n -> TodoItems] : n \in 0..MaxTodos}

\* The list object passed to render_todos.
InputList(items) == [id |-> "todos", items |-> items]

\* A faulty variant of list_copy: the list itself is returned.
list_alias(l) == l

\* todos.copy(): a new list object with the same items.
list_copy(l) == [id |-> "new", items |-> l.items]

\* todos[start:end] (0-based, end exclusive, clipped): a new list object.
list_slice(l, start, end) ==
    [id |-> "new", items |-> SubSeq(l.items, start + 1, IF end > Len(l.items) THEN Len(l.items) ELSE end)]

max(a, b) == IF a >= b THEN a ELSE b

\* A faulty variant of slice_start: the slice may go past the end of the list.
slice_start_unclamped(n, highlighted_line, max_render) ==
    IF highlighted_line.is_none THEN 0
    ELSE max(highlighted_line.value - (max_render \div 2), 0)

\* render_todos lines 134-145: the start of the slice of a list of n items.
slice_start(n, highlighted_line, max_render) ==
    IF highlighted_line.is_none
    THEN 0
    ELSE LET radius == max_render \div 2
             start  == max(highlighted_line.value - radius, 0)
         IN  IF start + max_render > n THEN max(n - max_render, 0) ELSE start

\* render_todos: the list returned and the relative index returned.
render_todos(todos, highlighted_line, max_render) ==
    IF Len(todos.items) <= max_render
    THEN [visible_todos |-> list_copy(todos), rel_index |-> highlighted_line]
    ELSE LET start   == slice_start(Len(todos.items), highlighted_line, max_render)
             end     == start + max_render
             visible == list_slice(todos, start, end)
             rel     == IF highlighted_line.is_none THEN NoNumber
                        ELSE Number(highlighted_line.value - start)
         IN  IF end < Len(todos.items)
             THEN [visible_todos |-> [visible EXCEPT !.items = Append(@, Ellipsis)],
                   rel_index     |-> IF ~rel.is_none /\ rel.value >= max_render
                                     THEN Number(max_render - 1) ELSE rel]
             ELSE [visible_todos |-> visible, rel_index |-> rel]

\* The draw_data of the to-do widget: the to-dos and selected_line (None or
\* an index, which an earlier removal may have left past the end).
TodoData ==
    {[has_error |-> FALSE, body |-> <<>>, todos |-> t, selected_line |-> h] :
        t \in TodoLists, h \in {NoNumber} \cup {Number(i) : i \in 0..MaxTodos}}

TodoInit ==
    /\ pc = "redraw"
    /\ draw_data \in {[w \in WidgetIds |-> IF w = "w1" THEN d ELSE EmptyData] : d \in TodoData}
    /\ exc = NoExc
    /\ term = "dashboard"
    /\ files \in {[max_rendering |-> m] : m \in 1..MaxRender}
    /\ log_messages = <<>>
    /\ printed = <<>>
    /\ widgets = NotBuilt
    /\ ui_state = NoUI
    /\ stop_event = FALSE
    /\ ridx = 1
    /\ data_copy = EmptyData
    /\ lock = Unlocked
    /\ last_updated = NewLastUpdated
    /\ spc = "not_started"
    /\ sidx = 1
    /\ now = 0
    /\ clock = StartTime
    /\ fg_event = NoEvent
    /\ sched_event = NoEvent
    /\ call_time = 0
    /\ accepted_at = NeverAccepted

\* todo.py draw lines 170-174: the call of render_todos on the to-dos of
\* draw_data; the history records the call and what it returned.
TodoRendered(r, max_render) ==
    [fn |-> "draw", widget |-> "w1", max_render |-> max_render,
     visible_todos |-> r.visible_todos, rel_index |-> r.rel_index]

todo_draw ==
    /\ pc = "redraw"
    /\ ridx = 1
    /\ LET r == render_todos(InputList(draw_data["w1"].todos),
                             draw_data["w1"].selected_line, files.max_rendering)
       IN  fg_event' = TodoRendered(r, files.max_rendering)
    /\ ridx' = 2
    /\ UNCHANGED <<pc, exc, life_vars, widgets, ui_state, stop_event, data_copy, lock,
                   shared_vars, sched_vars, clock>>

TodoNext == todo_draw

TodoSpec == TodoInit /\ [][TodoNext]_vars

(***************************************************************************)
(* The global key bindings with their characters, checked on their own:    *)
(* the three bindings of base.yaml are validated, and in the session that  *)
(* follows a typed character is matched against them.                      *)
(***************************************************************************)
\* What base.yaml may give for a key binding (None: the key is absent).
KeyTexts == {"q", "r", "h", "qq"}

\* The characters the user types ("x" is bound to nothing by default).
Typed == {"q", "r", "h", "x"}

\* The kind of value a binding's text is, as validate_theme_field reads it.
key_type(text) ==
    CASE text = None -> "none"
      [] text = "qq" -> "two_chars"
      [] OTHER       -> "char"

\* base.yaml files that give the three key bindings.
BindingFiles ==
    {[kind |-> "bindings", yaml |-> y, config |-> NoConfig] :
        y \in [Range(KeyFields) -> KeyTexts \cup {None}]}

\* BaseConfig.__init__ lines 553-608 on the three bindings, in the order
\* quit_key, reload_key, help_key: the messages, and the attributes (the
\* text given, or the default when the key is absent).
RECURSIVE bindings_from(_, _, _, _)
bindings_from(yaml, i, log, config) ==
    IF i > Len(KeyFields)
    THEN [log |-> log, config |-> config]
    ELSE LET f == KeyFields[i]
             r == validate_theme_field(f, key_type(yaml[f]))
         IN  bindings_from(yaml, i + 1, log \o r.log,
                           [config EXCEPT ![f] = IF yaml[f] = None THEN r.value ELSE yaml[f]])

\* A faulty variant of global_binding: the reload binding is compared before
\* the help binding.
global_binding_reload_first(config, ch) ==
    IF ch = config.quit_key THEN "quit_key"
    ELSE IF ch = config.reload_key THEN "reload_key"
    ELSE IF ch = config.help_key THEN "help_key"
    ELSE "other"

\* handle_key_input lines 1052-1057: the binding a typed character is taken
\* for, the first one in the order quit, help, reload whose character it is.
global_binding(config, ch) ==
    IF ch = config.quit_key THEN "quit_key"
    ELSE IF ch = config.help_key THEN "help_key"
    ELSE IF ch = config.reload_key THEN "reload_key"
    ELSE "other"

BindingsInit ==
    /\ pc = "load"
    /\ files \in BindingFiles
    /\ exc = NoExc
    /\ term = "normal"
    /\ log_messages = <<>>
    /\ printed = <<>>
    /\ widgets = NotBuilt
    /\ ui_state = NoUI
    /\ stop_event = FALSE
    /\ ridx = 1
    /\ data_copy = EmptyData
    /\ lock = Unlocked
    /\ draw_data = NewDrawData
    /\ last_updated = NewLastUpdated
    /\ spc = "not_started"
    /\ sidx = 1
    /\ now = 0
    /\ clock = StartTime
    /\ fg_event = NoEvent
    /\ sched_event = NoEvent
    /\ call_time = 0
    /\ accepted_at = NeverAccepted

\* The scan and load of base.yaml: an Error-level message ends the session
\* with ConfigScanFoundError, otherwise the render loop is entered with the
\* BaseConfig.
load_bindings ==
    /\ pc = "load"
    /\ LET c == bindings_from(files.yaml, 1, <<>>,
                              [f \in Range(KeyFields) |-> BaseStandardFallBackConfig[f]])
       IN  /\ log_messages' = c.log
           /\ IF contains_error(c.log)
              THEN /\ exc' = Exc("ConfigScanFoundError", c.log, "")
                   /\ pc' = "handle"
                   /\ UNCHANGED files
              ELSE /\ files' = [files EXCEPT !.config = c.config]
                   /\ pc' = "frame"
                   /\ UNCHANGED exc
    /\ ui_state' = NoUI
    /\ fg_event' = NoEvent
    /\ UNCHANGED <<term, printed, widgets, stop_event, render_vars,
                   shared_vars, sched_vars, clock>>

\* main_curses lines 90-94 with a typed character, Escape, or a press on the
\* first widget: handle_mouse_input, then handle_key_input with the key.
typed_frame ==
    /\ pc = "frame"
    /\ \E input \in Typed \cup {"escape", "mouse"} :
          LET m == handle_mouse_input(ui_state, input, input = "mouse", 0, 0)
              key == IF input \in Typed THEN global_binding(files.config, input) ELSE input
              k == handle_key_input(m.ui, key)
          IN  /\ ui_state' = k.ui
              /\ fg_event' = [fn |-> IF k.called THEN "keyboard" ELSE "none",
                              widget |-> IF k.called THEN k.ui.highlighted ELSE None,
                              key |-> input]
              /\ IF k.raises # "none"
                 THEN exc' = Exc(k.raises, <<>>, "") /\ pc' = "handle"
                 ELSE pc' = "frame" /\ UNCHANGED exc
    /\ UNCHANGED <<life_vars, widgets, stop_event, render_vars,
                   shared_vars, sched_vars, clock>>

\* main_entry_point lines 154-156: a Restart starts the next session, which
\* reads base.yaml anew.
restart_bindings ==
    /\ pc = "handle"
    /\ exc.type = "RestartException"
    /\ pc' = "load"
    /\ files' \in BindingFiles
    /\ exc' = NoExc
    /\ log_messages' = <<>>
    /\ ui_state' = NoUI
    /\ fg_event' = NoEvent
    /\ UNCHANGED <<term, printed, widgets, stop_event, render_vars,
                   shared_vars, sched_vars, clock>>

BindingsNext ==
    \/ load_bindings
    \/ typed_frame
    \/ restart_bindings

BindingsSpec == BindingsInit /\ [][BindingsNext]_vars

(***************************************************************************)
(* The interval of one widget from its file to the scheduler, checked on   *)
(* its own: the file of w1 gives the interval as a number, the widget is   *)
(* built, and the scheduler thread runs on it (tick, visit, update_call    *)
(* and time_passes as above) while the render loop waits for input.        *)
(***************************************************************************)
\* The numbers a widget file may give for interval.
RawIntervals == {0 - 1, 0, 1, 2}

\* The widget files of these runs: interval is a number or absent.
IntervalFiles ==
    {[kind |-> "interval", yaml |-> [interval |-> v], config |-> NoConfig] :
        v \in {NoNumber} \cup {Number(n) : n \in RawIntervals}}

IntervalInit ==
    /\ pc = "load"
    /\ files \in IntervalFiles
    /\ exc = NoExc
    /\ term = "normal"
    /\ log_messages = <<>>
    /\ printed = <<>>
    /\ widgets = NotBuilt
    /\ ui_state = NoUI
    /\ stop_event = FALSE
    /\ ridx = 1
    /\ data_copy = EmptyData
    /\ lock = Unlocked
    /\ draw_data = NewDrawData
    /\ last_updated = NewLastUpdated
    /\ spc = "not_started"
    /\ sidx = 1
    /\ now = 0
    /\ clock = StartTime
    /\ fg_event = NoEvent
    /\ sched_event = NoEvent
    /\ call_time = 0
    /\ accepted_at = NeverAccepted

\* Config.__init__ lines 294-308 on the field interval: an Error when it is
\* None (a number passes isinstance whatever its sign), then
\* self.interval = interval, and None if interval == 0.  An Error ends the
\* session at the scan.
load_interval ==
    /\ pc = "load"
    /\ LET v == files.yaml.interval
       IN  IF v.is_none
           THEN /\ log_messages' = <<FieldMessage("w1", LogLevels.ERROR, "interval")>>
                /\ exc' = Exc("ConfigScanFoundError", log_messages', "")
                /\ pc' = "handle"
                /\ UNCHANGED files
           ELSE /\ files' = [files EXCEPT !.config = [interval |-> config_interval(v.value)]]
                /\ pc' = "build"
                /\ UNCHANGED <<exc, log_messages>>
    /\ UNCHANGED <<term, printed, widgets, ui_state, stop_event, render_vars,
                   fg_event, shared_vars, sched_vars, clock>>

\* The plugin's build passes config.interval to Widget.__init__ and may or
\* may not bind an update function; then the scheduler thread is started
\* and the render loop entered (main_curses lines 49-77).
build_interval_widget ==
    /\ pc = "build"
    /\ \E update_func \in BOOLEAN, enabled \in BOOLEAN :
          widgets' = [widgets EXCEPT !["w1"] =
                         build([update_func  |-> update_func,
                                raw_interval |-> files.yaml.interval.value,
                                enabled      |-> enabled])]
    /\ spc' = "while"
    /\ pc' = "frame"
    /\ UNCHANGED <<exc, life_vars, ui_state, stop_event, render_vars, fg_event,
                   shared_vars, sidx, now, sched_event, call_time, accepted_at, clock>>

IntervalNext ==
    \/ load_interval
    \/ build_interval_widget
    \/ tick
    \/ visit
    \/ update_call
    \/ time_passes

IntervalSpec == IntervalInit /\ [][IntervalNext]_vars

(***************************************************************************)
(* Scheduler threads across restarts, checked on their own.  Each call of  *)
(* main_curses (a session, numbered from 1) builds its own widget objects, *)
(* creates its own stop_event and starts its own scheduler thread; a       *)
(* thread that join has given up on is a daemon thread that goes on        *)
(* running after its session.  Here the variables are indexed by session:  *)
(*   files        the number of the present session                        *)
(*   widgets      per thread: the session whose widget objects its         *)
(*                reloadable_widgets holds (0 before the thread starts)    *)
(*   stop_event   per session: its threading.Event                         *)
(*   draw_data, last_updated   per session and widget                      *)
(*   spc, sidx, now            per thread                                  *)
(*   accepted_at  history, per thread: the number of stores it has made    *)
(*                since its stop_event was set                             *)
(*   sched_event  history: the last store of a thread                      *)
(* Every widget is updatable with interval 1, and the user's only key is   *)
(* the reload key.                                                         *)
(***************************************************************************)
\* The number of sessions (calls of main_curses) of a run.
MaxSessions == 2

Sessions == 1..MaxSessions

\* What the update functions return in these runs.
AbandonResults == {Payload(<<"A", "a">>)}

\* A store of thread t into widget w of the objects built by session s.
Store(t, s, w) == [fn |-> "store", thread |-> t, session |-> s, widget |-> w]

AbandonInit ==
    /\ pc = "start"
    /\ files = [kind |-> "sessions", session |-> 1]
    /\ exc = NoExc
    /\ term = "normal"
    /\ log_messages = <<>>
    /\ printed = <<>>
    /\ widgets = [t \in Sessions |-> 0]
    /\ ui_state = NoUI
    /\ stop_event = [s \in Sessions |-> FALSE]
    /\ ridx = 1
    /\ data_copy = EmptyData
    /\ lock = Unlocked
    /\ draw_data = [s \in Sessions |-> NewDrawData]
    /\ last_updated = [s \in Sessions |-> NewLastUpdated]
    /\ spc = [t \in Sessions |-> "not_started"]
    /\ sidx = [t \in Sessions |-> 1]
    /\ now = [t \in Sessions |-> 0]
    /\ clock = StartTime
    /\ fg_event = NoEvent
    /\ sched_event = NoEvent
    /\ call_time = 0
    /\ accepted_at = [t \in Sessions |-> 0]

\* main_curses lines 49-77: build_widgets returns a new dict of new Widget
\* objects (draw_data = {}, last_updated = 0), a new threading.Event is
\* created, and the thread is started with this dict and this Event as its
\* arguments.
start_session ==
    /\ pc = "start"
    /\ LET s == files.session
       IN  /\ draw_data' = [draw_data EXCEPT ![s] = NewDrawData]
           /\ last_updated' = [last_updated EXCEPT ![s] = NewLastUpdated]
           /\ stop_event' = [stop_event EXCEPT ![s] = FALSE]
           /\ widgets' = [widgets EXCEPT ![s] = s]
           /\ spc' = [spc EXCEPT ![s] = "while"]
    /\ pc' = "frame"
    /\ UNCHANGED <<exc, life_vars, ui_state, render_vars, fg_event, sidx, now,
                   sched_event, call_time, accepted_at, clock>>

\* handle_key_input line 1057: the reload key raises RestartException, and
\* the except clause (main_curses line 131) calls cleanup_curses_setup.
reload_pressed ==
    /\ pc = "frame"
    /\ exc' = Exc("RestartException", <<>>, "")
    /\ pc' = "cleanup"
    /\ UNCHANGED <<life_vars, widgets, ui_state, stop_event, render_vars, fg_event,
                   shared_vars, sched_vars, clock>>

\* cleanup_curses_setup line 741: stop_event.set() on the session's Event.
set_stop_event ==
    /\ pc = "cleanup"
    /\ stop_event' = [stop_event EXCEPT ![files.session] = TRUE]
    /\ pc' = "join"
    /\ UNCHANGED <<exc, life_vars, widgets, ui_state, render_vars, fg_event,
                   shared_vars, sched_vars, clock>>

\* cleanup_curses_setup lines 742-746 and main_curses line 134: join returns
\* when the session's thread has ended, or after the timeout when it is
\* inside an update call; endwin; the exception is raised again.
join_or_give_up ==
    /\ pc = "join"
    /\ spc[files.session] \in {"done", "call"}
    /\ pc' = "handle"
    /\ UNCHANGED <<exc, life_vars, widgets, ui_state, stop_event, render_vars, fg_event,
                   shared_vars, sched_vars, clock>>

\* main_entry_point lines 154-156: the next call of main_curses.
next_session ==
    /\ pc = "handle"
    /\ files.session < MaxSessions
    /\ files' = [files EXCEPT !.session = @ + 1]
    /\ exc' = NoExc
    /\ pc' = "start"
    /\ UNCHANGED <<term, log_messages, printed, widgets, ui_state, stop_event, render_vars,
                   fg_event, shared_vars, sched_vars, clock>>

\* A faulty variant of thread_widgets: the thread looks the widgets up in
\* the dict of the present session each time it uses them.
thread_widgets_current(t) == files.session

\* reload_widget_scheduler lines 1069-1070: widget_list and
\* reloadable_widgets are made once, from the dict the thread was given.
thread_widgets(t) == widgets[t]

\* Lines 1072-1073 for thread t: the while test on its own Event, then now.
scheduler_tick(t) ==
    /\ spc[t] = "while"
    /\ IF stop_event[t]
       THEN spc' = [spc EXCEPT ![t] = "done"] /\ UNCHANGED now
       ELSE spc' = [spc EXCEPT ![t] = "for"] /\ now' = [now EXCEPT ![t] = clock]
    /\ UNCHANGED <<fg_vars, shared_vars, sidx, sched_event, call_time, accepted_at, clock>>

\* Lines 1075-1084 for thread t: the for loop head up to the call of update.
scheduler_visit(t) ==
    /\ spc[t] = "for"
    /\ IF sidx[t] > Len(WidgetOrder) \/ stop_event[t]
       THEN /\ spc' = [spc EXCEPT ![t] = "while"]
            /\ sidx' = [sidx EXCEPT ![t] = 1]
            /\ now' = [now EXCEPT ![t] = 0]
       ELSE IF due(now[t], last_updated[thread_widgets(t)][WidgetOrder[sidx[t]]], Number(1))
            THEN /\ spc' = [spc EXCEPT ![t] = "call"]
                 /\ UNCHANGED <<sidx, now>>
            ELSE /\ sidx' = [sidx EXCEPT ![t] = @ + 1]
                 /\ UNCHANGED <<spc, now>>
    /\ UNCHANGED <<fg_vars, shared_vars, sched_event, call_time, accepted_at, clock>>

\* Lines 1085-1088 for thread t: its update call returns or raises, and the
\* result or the error marker is stored in the widget.
scheduler_update(t) ==
    /\ spc[t] = "call"
    /\ LET s == thread_widgets(t)
           w == WidgetOrder[sidx[t]]
       IN  /\ \/ /\ \E result \in AbandonResults :
                       draw_data' = [draw_data EXCEPT ![s][w] = store(@, result)]
                 /\ last_updated' = [last_updated EXCEPT ![s][w] = now[t]]
              \/ /\ \E e \in UpdateErrors :
                       draw_data' = [draw_data EXCEPT ![s][w] = store(@, ErrorMarker(e))]
                 /\ UNCHANGED last_updated
           /\ sched_event' = Store(t, s, w)
    /\ spc' = [spc EXCEPT ![t] = "for"]
    /\ sidx' = [sidx EXCEPT ![t] = @ + 1]
    /\ accepted_at' = [accepted_at EXCEPT ![t] = IF stop_event[t] THEN @ + 1 ELSE @]
    /\ UNCHANGED <<fg_vars, now, call_time, clock>>

\* Time passes while some thread sleeps or is inside an update call.
session_time_passes ==
    /\ \E t \in Sessions : spc[t] \in {"while", "call"}
    /\ clock < MaxTime
    /\ clock' = clock + 1
    /\ UNCHANGED <<fg_vars, shared_vars, sched_vars>>

AbandonNext ==
    \/ start_session
    \/ reload_pressed
    \/ set_stop_event
    \/ join_or_give_up
    \/ next_session
    \/ \E t \in Sessions : scheduler_tick(t)
    \/ \E t \in Sessions : scheduler_visit(t)
    \/ \E t \in Sessions : scheduler_update(t)
    \/ session_time_passes

AbandonSpec == AbandonInit /\ [][AbandonNext]_vars

\* C6: for every combination of update function bound or not, interval
\* absent (None, or 0 normalised to None) or non-zero, enabled or not,
\* Widget.updatable() is true if and only if an update function is bound and
\* the interval is non-zero and the widget is enabled.
C6_UpdatableIffBoundIntervalEnabled ==
    \A w \in WidgetIds :
        updatable(widgets[w]) <=>
            /\ widgets[w].update_func
            /\ ~widgets[w].interval.is_none
            /\ widgets[w].interval.value # 0
            /\ widgets[w].enabled

\* C6 witness: a running session with an updatable widget next to a widget
\* that has an update function and an interval but is disabled.
C6_Witness ==
    /\ pc = "frame"
    /\ updatable(widgets["w1"])
    /\ widgets["w2"].update_func
    /\ ~widgets["w2"].interval.is_none
    /\ ~widgets["w2"].enabled
    /\ ~updatable(widgets["w2"])

\* C7: the bound draw function of a disabled widget is never invoked by the
\* redraw pass (Widget.draw) nor by the error-banner path, and the bound
\* update function of a disabled widget is never invoked by Widget.update.
C7_DisabledNeverInvoked ==
    /\ fg_event.fn = "draw" => widgets[fg_event.widget].enabled
    /\ sched_event.fn = "update" => widgets[sched_event.widget].enabled

\* C7 witness: the redraw pass has gone past the disabled first widget
\* (Widget.draw was called on it) without invoking its bound draw function.
C7_Witness ==
    /\ pc = "redraw"
    /\ ridx = 2
    /\ ~widgets["w1"].enabled
    /\ fg_event = NoEvent

\* C8: when the config scan returns (no exception leaves it), the session
\* proceeds past the scan if and only if the files hold no Error-level
\* entry; Warnings alone do not block; with an Error the session ends in
\* ConfigScanFoundError carrying an aggregate with an Error, the aggregate
\* is printed in normal terminal mode before the process ends, and no
\* scheduler thread is started.
C8_ScanGate ==
    /\ [](pc \in PastScan => ~ErrorFound(files))
    /\ [](pc = "terminated" /\ exc.type = "ConfigScanFoundError" =>
            /\ printed = <<[what |-> "ConfigScanFoundError", log |-> exc.log, term |-> "normal"]>>
            /\ spc = "not_started")
    /\ [][pc = "scan" /\ ~ScanRaises(files) =>
            /\ (pc' = "setup") <=> ~ErrorFound(files)
            /\ ErrorFound(files) =>
                  /\ pc' = "handle"
                  /\ exc'.type = "ConfigScanFoundError"
                  /\ contains_error(exc'.log)
                  /\ spc' = "not_started"]_vars

\* C8 witness: a session whose theme file gave a Warning (and no Error) is
\* running, with its scheduler thread started.
C8_Witness ==
    /\ files.theme = "warn"
    /\ pc = "frame"
    /\ spc # "not_started"
    /\ log_messages # <<>>

\* C9: the config scan runs before the terminal is placed into curses mode:
\* while the scan is about to run, the terminal is still in normal mode.
C9_ScanBeforeCursesMode == pc = "scan" => term = "normal"

\* C10: an exception raised while discovering, loading or constructing a
\* widget reaches main_entry_point as WidgetSourceFileException, and no
\* scheduler thread was started.
C10_WidgetFailureIsBuildFailed ==
    pc = "handle" /\ exc.detail \in {"discover", "load", "build"} =>
        exc.type = "WidgetSourceFileException" /\ spc = "not_started"

\* The error markers the scheduler stores.
MarkerValues == {ErrorMarker(e) : e \in UpdateErrors}

\* The values the scheduler writes to draw_data as a whole, and the value
\* Widget.__init__ gives it.
WholeValues == {EmptyData} \cup UpdateResults \cup MarkerValues

\* main_curses has started its scheduler thread and has not been left.
InSession == pc \in SessionPcs

\* The scheduler thread of the running session has not ended.
SchedulerAlive == InSession /\ spc \in {"while", "for", "call"}

\* At least the interval of widget w has elapsed since its last_updated.
IntervalElapsed(w) == clock - last_updated[w] >= widgets[w].interval.value

\* Widget w is updatable and its interval has elapsed.
Refreshable(w) == updatable(widgets[w]) /\ IntervalElapsed(w)

\* The step that ends an update call of the running session's scheduler.
UpdateCallEnds == InSession /\ spc = "call" /\ spc' # "call"

\* C1: when a widget's update call raises, the scheduler thread stores an
\* error marker in that widget's draw_data and stays in its loop at the next
\* widget (the thread ends only once stop_event is set); every due widget
\* that is visited is refreshed, and after the failure every other widget
\* whose interval has elapsed has its update called, in the same tick or in
\* a later one, unless the session is stopped.
C1_SchedulerSurvivesUpdateFailure ==
    /\ [](spc = "done" => stop_event)
    /\ [][UpdateCallEnds /\ last_updated' = last_updated =>
            /\ draw_data'[sw] \in MarkerValues
            /\ \A v \in WidgetIds \ {sw} : draw_data'[v] = draw_data[v]
            /\ spc' = "for"
            /\ sidx' = sidx + 1]_vars
    /\ \A v \in WidgetIds : \A w \in WidgetIds \ {v} :
          (SchedulerAlive /\ ~stop_event /\ draw_data[v].has_error
              /\ Refreshable(w))
          ~> (stop_event \/ sched_event = Invoked("update", w))

\* C1 witness: after the update of the first widget has failed (its
\* draw_data holds the error marker), the scheduler is calling the update of
\* the second widget.
C1_Witness ==
    /\ InSession
    /\ spc = "call"
    /\ reloadable_widgets = <<"w1", "w2">>
    /\ sidx = 2
    /\ draw_data["w1"] \in MarkerValues
    /\ ~stop_event

\* C2: a failing update never leads to a fatal signal: the process never
\* ends in UnknownException raised by the error-banner path of the render
\* loop.
C2_UpdateFailureNeverFatal ==
    ~(pc = "handle" /\ exc.type = "UnknownException" /\ exc.detail = "draw_data['__error__']")

\* C3: every snapshot the render loop obtains, and every value of draw_data it
\* is taken from, is one value the scheduler wrote as a whole (a complete
\* payload or a complete error marker) or the initial empty state.
C3_SnapshotIsWholeWrite ==
    /\ data_copy \in WholeValues
    /\ \A w \in WidgetIds : draw_data[w] \in WholeValues

\* C3 witness: the render loop holds a snapshot of one complete payload while
\* the scheduler has already published another one for the same widget.
C3_Witness ==
    /\ pc = "use"
    /\ data_copy \in UpdateResults
    /\ draw_data[rw] \in UpdateResults
    /\ draw_data[rw] # data_copy

\* C4: two consecutive accepted refreshes of a widget (update calls that
\* returned and whose payload was published) are at least the widget's
\* interval apart: the call of the later one is made at least interval after
\* the call of the earlier one.
C4_AcceptedRefreshesIntervalApart ==
    [][UpdateCallEnds /\ last_updated' # last_updated /\ ~accepted_at[sw].is_none =>
          call_time - accepted_at[sw].value >= widgets[sw].interval.value]_vars

\* C5: the payload of a widget changes only once its interval has elapsed
\* since last_updated (before that every snapshot shows the previous
\* payload); a visited widget that is due has its update called, a call
\* that returns publishes its result and stamps last_updated, and a
\* snapshot is the published payload; and while the scheduler is not
\* stopped, an updatable widget whose interval has elapsed eventually has its
\* update called.
C5_RefreshAfterInterval ==
    /\ [][InSession /\ InSession' =>
            \A w \in WidgetIds :
                draw_data'[w] # draw_data[w] => Refreshable(w)]_vars
    /\ [][InSession /\ spc = "for" /\ ~stop_event /\ sidx <= Len(reloadable_widgets)
            /\ <<spc, sidx>>' # <<spc, sidx>> =>
            IF now - last_updated[sw] >= widgets[sw].interval.value
            THEN spc' = "call" /\ sched_event' = Invoked("update", sw)
            ELSE spc' = "for" /\ UNCHANGED shared_vars]_vars
    /\ [][UpdateCallEnds /\ ~draw_data'[sw].has_error =>
            draw_data'[sw] \in UpdateResults /\ last_updated'[sw] = now]_vars
    /\ [][pc = "copy" /\ pc' = "use" => data_copy' = draw_data[rw]]_vars
    /\ \A w \in WidgetIds :
          (SchedulerAlive /\ ~stop_event /\ Refreshable(w))
          ~> (stop_event \/ sched_event = Invoked("update", w))

\* C5 witness: the interval has elapsed after the session's start, the
\* scheduler has called update and published the payload B with a later
\* stamp, and the render loop's snapshot shows B.
C5_Witness ==
    /\ pc = "use"
    /\ data_copy = Payload(<<"B", "b">>)
    /\ draw_data[rw] = data_copy
    /\ last_updated[rw] > StartTime
    /\ ~accepted_at[rw].is_none

\* A step of the foreground thread that is the start of a frame.
FrameStep == pc = "frame" /\ pc' # "frame"

\* (mh, mw) is the bounding box of the enabled widgets: the largest y + height
\* and the largest x + width among them.
IsBoundingBox(mh, mw) ==
    LET en == {v \in WidgetIds : widgets[v].enabled}
    IN  /\ \A v \in en : Dims[v].y + Dims[v].height <= mh /\ Dims[v].x + Dims[v].width <= mw
        /\ \E v \in en : Dims[v].y + Dims[v].height = mh
        /\ \E v \in en : Dims[v].x + Dims[v].width = mw

\* C11: at the start of every frame the terminal size just read is compared
\* with the bounding box of the enabled widgets; if the height or the width
\* is smaller, TerminalTooSmall is raised with exactly the size read and the
\* size required, and otherwise (a terminal equal to the bounding box
\* included) no TerminalTooSmall is raised.
C11_SizeCheckedEveryFrame ==
    [][FrameStep =>
          LET s == fg_event'.size
          IN  \E mh \in {Dims[v].y + Dims[v].height : v \in WidgetIds} :
              \E mw \in {Dims[v].x + Dims[v].width : v \in WidgetIds} :
                 /\ IsBoundingBox(mh, mw)
                 /\ IF s[1] < mh \/ s[2] < mw
                    THEN /\ exc'.type = "TerminalTooSmall"
                         /\ exc'.size = <<s[1], s[2], mh, mw>>
                         /\ pc' = "cleanup"
                    ELSE exc'.type # "TerminalTooSmall"]_vars

\* C11 witness: a frame of a session in which an earlier frame passed the
\* check (a widget was highlighted by it) finds the terminal too small.
C11_Witness ==
    /\ pc = "cleanup"
    /\ exc.type = "TerminalTooSmall"
    /\ fg_event.fn = "none" /\ fg_event # NoEvent
    /\ exc.size[1] = fg_event.size[1] /\ exc.size[2] = fg_event.size[2]
    /\ ui_state.highlighted # None

\* A RestartException is in flight out of the render loop.
Restarting == exc.type = "RestartException"

\* C12: on Restart the stop flag is set, the join with the scheduler thread
\* returns even while the scheduler is inside an update call, the terminal
\* is torn down before the exception reaches main_entry_point, the only step
\* from there starts a fresh session, and a Restart raised in the render
\* loop always leads to a new session of main_curses (which begins by
\* discovering the widgets again), whether or not the update call in progress
\* ever returns.
C12_RestartCompletes ==
    /\ [](Restarting /\ pc \in {"join", "endwin", "handle"} => stop_event)
    /\ [](Restarting /\ pc = "join" /\ spc = "call" => ENABLED join)
    /\ [](Restarting /\ pc = "handle" => term = "normal")
    /\ [][Restarting /\ pc = "handle" /\ pc' # "handle"
             => /\ pc' = "entry"
                /\ files' \in FileSets
                /\ widgets' = NotBuilt
                /\ spc' = "not_started"
                /\ ~stop_event']_vars
    /\ (Restarting /\ pc = "cleanup") ~> (pc = "discover")

\* C12 witness: the RestartException has reached main_entry_point while the
\* scheduler thread is still inside an update call.
C12_Witness ==
    /\ pc = "handle"
    /\ Restarting
    /\ spc = "call"
    /\ stop_event
    /\ term = "normal"

\* C13: an exception other than RestartException that reaches
\* main_entry_point ends the process (the only step from there leads to
\* "terminated"), nothing happens after that, and a session is only ever
\* started again by a RestartException.
C13_OnlyRestartStartsAgain ==
    /\ [][pc = "handle" /\ ~Restarting /\ pc' # "handle" => pc' = "terminated"]_vars
    /\ [][pc = "terminated" => pc' = "terminated"]_vars
    /\ [][pc # "entry" /\ pc' = "entry" => pc = "handle" /\ Restarting]_vars

\* C13 witness: a session that was running has ended with TerminalTooSmall,
\* and the process has terminated.
C13_Witness ==
    /\ pc = "terminated"
    /\ exc.type = "TerminalTooSmall"
    /\ spc # "not_started"

\* C14: when an exception that left a running session (one whose scheduler
\* thread was started) is with main_entry_point, stop_event is set and the
\* terminal is back in its normal mode; and whatever main_entry_point has
\* printed was printed with the terminal in its normal mode.
C14_TornDownBeforeReport ==
    /\ pc \in {"handle", "terminated"} /\ spc # "not_started"
          => stop_event /\ term = "normal"
    /\ \A i \in 1..Len(printed) : printed[i].term = "normal"

\* C14 witness: a session with a warning in its log was left by the quit
\* key, and the accumulated log has been printed.
C14_Witness ==
    /\ pc = "terminated"
    /\ spc # "not_started"
    /\ Len(printed) = 1
    /\ printed[1].what = "StopException"
    /\ printed[1].log # <<>>
    /\ printed[1].term = "normal"

\* The foreground thread has just read the input of a frame.
AfterFrame == "key" \in DOMAIN fg_event

\* A start of a frame at which getch returned KEY_MOUSE and getmouse reported
\* button 1 pressed.
PressStep == FrameStep /\ fg_event'.key = "mouse" /\ fg_event'.pressed

\* The widgets whose rectangle, edges included, contains the point pt = (mx, my).
Containing(pt) ==
    {w \in WidgetIds : /\ Dims[w].x <= pt[1] /\ pt[1] <= Dims[w].x + Dims[w].width
                       /\ Dims[w].y <= pt[2] /\ pt[2] <= Dims[w].y + Dims[w].height}

\* The position of widget w in declaration order.
Position(w) == CHOOSE i \in 1..Len(WidgetOrder) : WidgetOrder[i] = w

\* C15: after a press of button 1 at a point, the highlighted widget is the
\* first widget in declaration order whose rectangle, all four edges
\* included, contains the point, and no widget if no rectangle contains it.
C15_InclusiveHitFirstInOrder ==
    [][PressStep =>
          LET inside == Containing(fg_event'.pt)
          IN  IF inside = {}
              THEN ui_state'.highlighted = None
              ELSE /\ ui_state'.highlighted \in inside
                   /\ \A v \in inside : Position(ui_state'.highlighted) <= Position(v)]_vars

\* C15 witness: a press on the bottom right corner of w1, which is also on
\* the top edge of w2, has highlighted w1.
C15_Witness ==
    /\ pc = "redraw"
    /\ AfterFrame
    /\ fg_event.key = "mouse"
    /\ fg_event.pressed
    /\ fg_event.pt = <<Dims["w1"].x + Dims["w1"].width, Dims["w1"].y + Dims["w1"].height>>
    /\ Containing(fg_event.pt) = {"w1", "w2"}
    /\ ui_state.highlighted = "w1"

\* A start of a frame at which getch returned Escape.
EscapeStep == FrameStep /\ fg_event'.key = "escape"

\* The plugin function fn was invoked at the start of the frame just begun.
Called(ev, fn) == \E i \in 1..Len(ev.calls) : ev.calls[i] = fn

\* C16: a press of button 1 and an Escape key both leave in
\* previously_highlighted the value highlighted had before; Escape leaves
\* nothing highlighted; after a press the mouse function is invoked exactly
\* if the press hit a widget, on the widget now highlighted, and whether it
\* returns or raises both fields already hold their new values.
C16_PreviousRecordedFirst ==
    /\ [][PressStep =>
             /\ ui_state'.previously_highlighted = ui_state.highlighted
             /\ Called(fg_event', "mouse") <=> Containing(fg_event'.pt) # {}
             /\ Called(fg_event', "mouse") =>
                   /\ fg_event'.widget = ui_state'.highlighted
                   /\ ui_state'.highlighted \in Containing(fg_event'.pt)]_vars
    /\ [][EscapeStep =>
             /\ ui_state'.previously_highlighted = ui_state.highlighted
             /\ ui_state'.highlighted = None
             /\ fg_event'.calls = <<>>]_vars

\* C16 witness: while w1 was highlighted a press hit no widget: nothing is
\* highlighted now, w1 is recorded as highlighted before, and no mouse
\* function was invoked.
C16_Witness ==
    /\ pc = "redraw"
    /\ AfterFrame
    /\ fg_event.key = "mouse"
    /\ fg_event.pressed
    /\ Containing(fg_event.pt) = {}
    /\ ui_state = [highlighted |-> None, previously_highlighted |-> "w1"]
    /\ ~Called(fg_event, "mouse")

\* The exceptions handle_key_input itself raises.
KeySignals == {"StopException", "RestartException"}

\* The keys that match no global binding with an effect: the getch timeout,
\* the help key (which does nothing) and any other key.
UnboundKeys == {"timeout", "help_key", "other"}

\* C17: the start of a frame raises StopException or RestartException only
\* for the quit key and the reload key read while no widget is highlighted;
\* with a widget highlighted when the key is handled, every key but Escape
\* goes to the keyboard function of that widget (unless its mouse function
\* has just raised), the highlight stays and no such exception is raised;
\* with no widget highlighted, a key without a binding changes nothing.
C17_GlobalKeysOnlyWithoutHighlight ==
    /\ [][FrameStep /\ exc'.type \in KeySignals =>
             /\ ui_state.highlighted = None
             /\ ui_state' = ui_state
             /\ fg_event'.calls = <<>>
             /\ \/ fg_event'.key = "quit_key" /\ exc'.type = "StopException"
                \/ fg_event'.key = "reload_key" /\ exc'.type = "RestartException"]_vars
    /\ [][FrameStep /\ fg_event'.key \notin {"unread", "escape"} /\ ui_state'.highlighted # None =>
             /\ exc'.type \notin KeySignals
             /\ fg_event'.widget = ui_state'.highlighted
             /\ \/ Called(fg_event', "keyboard")
                \/ fg_event'.calls = <<"mouse">> /\ exc'.detail = "plugin"
             /\ fg_event'.key # "mouse" => ui_state' = ui_state]_vars
    /\ [][FrameStep /\ fg_event'.key \in UnboundKeys /\ ui_state.highlighted = None =>
             /\ ui_state' = ui_state
             /\ exc' = exc
             /\ fg_event'.calls = <<>>
             /\ pc' = "redraw"]_vars

\* C17 witness: the quit key was read while w1 was highlighted: it went to
\* the keyboard function of w1 and the session goes on.
C17_Witness ==
    /\ pc = "redraw"
    /\ AfterFrame
    /\ fg_event.key = "quit_key"
    /\ ui_state.highlighted = "w1"
    /\ fg_event.calls = <<"keyboard">>
    /\ fg_event.widget = "w1"
    /\ exc = NoExc

\* A widget file has been loaded and validated.
WidgetLoaded == pc \in {"loaded", "built"} /\ files.kind = "widget"

\* The number of messages of the given level about the given field.
Count(log, level, field) ==
    Cardinality({i \in 1..Len(log) : log[i].level = level /\ log[i].field = field})

\* The value v of a widget file is present and has the type the field
\* requires: a string for name and title, a boolean for enabled, an int or a
\* float for interval, an int for height, width, y and x.
WellTyped(f, v) ==
    CASE f \in {"name", "title"} -> v = "str"
      [] f = "enabled"           -> v \in {"true", "false"}
      [] f = "interval"          -> v \in {"int", "zero", "float"}
      [] OTHER                   -> v \in {"int", "zero"}

\* C18: validating a widget file raises nothing and leaves exactly one Error
\* for each of the eight fields that is missing or mistyped, and none for a
\* field that is present and well typed.
C18_OneErrorPerBadField ==
    WidgetLoaded =>
       /\ exc = NoExc
       /\ \A f \in Range(WidgetFields) :
             Count(log_messages, LogLevels.ERROR, f)
                = IF WellTyped(f, files.yaml[f]) THEN 0 ELSE 1

\* C19: a widget file with interval 0 gets no Error for interval and a Config
\* whose interval is None; the widget built from it has the interval None,
\* is not updatable and is not among the widgets the scheduler reloads, even
\* with an update function bound and enabled; a widget file without interval
\* gets an Error for interval.
C19_ZeroIntervalDisablesRefresh ==
    /\ WidgetLoaded /\ files.yaml.interval = "zero" =>
          /\ Count(log_messages, LogLevels.ERROR, "interval") = 0
          /\ files.config.interval = NoNumber
    /\ pc = "built" /\ files.yaml.interval = "zero" =>
          /\ widgets["w1"].interval = NoNumber
          /\ ~updatable(widgets["w1"])
          /\ "w1" \notin Range(reloadable_widgets)
    /\ WidgetLoaded /\ files.yaml.interval = "none" =>
          /\ Count(log_messages, LogLevels.ERROR, "interval") = 1
          /\ contains_error(log_messages)

\* C19 witness: a widget built from a valid file with interval 0, enabled and
\* with an update function bound.
C19_Witness ==
    /\ pc = "built"
    /\ files.yaml.interval = "zero"
    /\ log_messages = <<>>
    /\ widgets["w1"].update_func
    /\ widgets["w1"].enabled
    /\ ~updatable(widgets["w1"])

\* The value v of the theme field f is present but malformed: a colour with
\* a component missing or not coercible to int (or no mapping at all), a flag
\* that is no boolean, a key that is not one letter or digit.
Malformed(f, v) ==
    IF f \in Range(ColourFields) THEN v \in {"no_r", "r_text", "r_null", "text"}
    ELSE IF f = FlagField THEN v = "str"
    ELSE v \in {"two_chars", "symbol", "empty", "int"}

\* C20: after the validation of base.yaml (whether it returned or raised),
\* a missing field has exactly one Warning, no Error and, if a BaseConfig
\* was constructed, its built-in default; a malformed field has at least one
\* Error and no Warning.
C20_MissingWarnsMalformedErrs ==
    pc \in {"loaded", "raised"} /\ files.kind = "theme" =>
       \A f \in Range(ThemeFields) :
          /\ files.yaml[f] = "none" =>
                /\ Count(log_messages, LogLevels.WARNING, f) = 1
                /\ Count(log_messages, LogLevels.ERROR, f) = 0
                /\ pc = "loaded" => files.config[f] = BaseStandardFallBackConfig[f]
          /\ Malformed(f, files.yaml[f]) =>
                /\ Count(log_messages, LogLevels.ERROR, f) >= 1
                /\ Count(log_messages, LogLevels.WARNING, f) = 0

\* A failing scan has returned its aggregate: ConfigScanFoundError carries it.
ScanFailed == pc \in {"handle", "terminated"} /\ exc.type = "ConfigScanFoundError"

\* The messages produced for one scanned file: one Error for a YAML parse
\* failure, else what its validation appended.
MessagesOf(file, st) ==
    IF st = "yamlerr" THEN <<LogMessage(file, LogLevels.ERROR)>> ELSE ValidationLog(file, st)

RECURSIVE MergedFrom(_, _)
MergedFrom(order, i) ==
    IF i > Len(order) THEN <<>>
    ELSE MessagesOf(order[i].file, order[i].st) \o MergedFrom(order, i + 1)

\* C21: the aggregate of a failing scan is the merge, in scan order (theme
\* file, then the widget files), of all the messages produced for every
\* scanned file, the Warnings of files without an Error included.
C21_AggregateMergesAllMessages ==
    ScanFailed => exc.log = MergedFrom(ScanOrder(files), 1)

\* Loading the file fails in the YAML parser.
ParseFailures == {"yamlerr", "scanerr"}

\* The messages of the log about the given file.
About(log, file) == SelectSeq(log, LAMBDA m : m.file = file)

\* C22: when a file (the theme file or a widget file) fails to parse and no
\* file is missing, the scan ends without an exception of the parser leaving
\* it: it returns an aggregate (carried by ConfigScanFoundError) that holds
\* exactly one message, an Error, for each file that failed to parse, and
\* the Errors of every other file, which were validated all the same.
C22_ParseFailureIsOneError ==
    [][pc = "scan" /\ ~FileMissing(files)
          /\ (\E i \in 1..Len(ScanOrder(files)) : ScanOrder(files)[i].st \in ParseFailures) =>
          /\ pc' = "handle"
          /\ exc'.type = "ConfigScanFoundError"
          /\ \A i \in 1..Len(ScanOrder(files)) :
                LET f == ScanOrder(files)[i]
                IN  /\ f.st \in ParseFailures =>
                          About(exc'.log, f.file) = <<LogMessage(f.file, LogLevels.ERROR)>>
                    /\ f.st \in {"error", "warn_error"} =>
                          contains_error(About(exc'.log, f.file))]_vars

\* The to-do widget has been drawn: fg_event holds what render_todos returned.
TodoDrawn == fg_event.fn = "draw" /\ "visible_todos" \in DOMAIN fg_event

\* The arguments of that call of render_todos.
TodosIn == draw_data["w1"].todos

HighlightedIn == draw_data["w1"].selected_line

\* C23: called on a list no longer than max_render, render_todos returns a
\* list with the same items in the same order and no ellipsis, and the
\* highlighted index as given (None included); the list returned is another
\* object than the one passed in, and the list passed in is left as it was.
C23_ShortListReturnedUnchanged ==
    /\ [](TodoDrawn /\ Len(TodosIn) <= fg_event.max_render =>
             /\ fg_event.visible_todos.items = TodosIn
             /\ fg_event.rel_index = HighlightedIn
             /\ fg_event.visible_todos.id # InputList(TodosIn).id)
    /\ [][pc = "redraw" => draw_data' = draw_data]_vars

\* C23 witness: a list of exactly max_render to-dos was rendered, with a
\* line highlighted.
C23_Witness ==
    /\ TodoDrawn
    /\ Len(TodosIn) = fg_event.max_render
    /\ fg_event.max_render = MaxRender
    /\ ~HighlightedIn.is_none
    /\ fg_event.visible_todos.items = TodosIn

\* The valid indices of the list rendered, and the last of them.
LastIndex == Len(TodosIn) - 1

ValidHighlight == ~HighlightedIn.is_none /\ HighlightedIn.value <= LastIndex

\* The list returned ends with the ellipsis.
EllipsisAppended ==
    LET v == fg_event.visible_todos.items
    IN  Len(v) = fg_event.max_render + 1 /\ v[Len(v)] = Ellipsis

\* The list returned holds the highlighted to-do at the index returned.
HighlightInWindow ==
    LET v == fg_event.visible_todos.items
        r == fg_event.rel_index
    IN  /\ ~r.is_none
        /\ 0 <= r.value /\ r.value < fg_event.max_render /\ r.value < Len(v)
        /\ v[r.value + 1] = TodosIn[HighlightedIn.value + 1]

\* C24 as stated: for a list longer than max_render and a valid highlighted
\* index, the window holds the highlighted to-do at the index returned,
\* unless it is the last to-do: then an ellipsis is appended and the index
\* returned is max_render - 1.
C24_FinalElementGetsEllipsis ==
    TodoDrawn /\ Len(TodosIn) > fg_event.max_render /\ ValidHighlight =>
       IF HighlightedIn.value = LastIndex
       THEN EllipsisAppended /\ fg_event.rel_index = Number(fg_event.max_render - 1)
       ELSE HighlightInWindow

\* C24 amended: for a list longer than max_render and a valid highlighted
\* index, the window always holds the highlighted to-do at the index
\* returned, the last to-do included; an ellipsis is appended exactly if the
\* window ends before the end of the list; and if the last to-do is
\* highlighted, the window is the last max_render to-dos, no ellipsis is
\* appended and the index returned is max_render - 1.
C24_HighlightAlwaysInWindow ==
    TodoDrawn /\ Len(TodosIn) > fg_event.max_render /\ ValidHighlight =>
       LET v == fg_event.visible_todos.items
           m == fg_event.max_render
       IN  /\ HighlightInWindow
           /\ Len(v) >= m
           /\ \E start \in 0..(Len(TodosIn) - m) :
                 /\ SubSeq(v, 1, m) = SubSeq(TodosIn, start + 1, start + m)
                 /\ fg_event.rel_index = Number(HighlightedIn.value - start)
                 /\ EllipsisAppended <=> start + m < Len(TodosIn)
                 /\ ~EllipsisAppended => Len(v) = m
           /\ HighlightedIn.value = LastIndex =>
                 /\ ~EllipsisAppended
                 /\ fg_event.rel_index = Number(m - 1)
                 /\ v = SubSeq(TodosIn, Len(TodosIn) - m + 1, Len(TodosIn))

\* C24 witness: the last of more than max_render to-dos is highlighted and
\* was rendered in the last slot, with no ellipsis.
C24_Witness ==
    /\ TodoDrawn
    /\ Len(TodosIn) > fg_event.max_render
    /\ ValidHighlight
    /\ HighlightedIn.value = LastIndex
    /\ fg_event.max_render = MaxRender
    /\ fg_event.rel_index = Number(MaxRender - 1)
    /\ ~EllipsisAppended

\* A step of the redraw pass at the loop head, for the widget rw.
RedrawStep == pc = "redraw" /\ ridx <= Len(WidgetOrder) /\ (pc' # "redraw" \/ ridx' # ridx)

\* The redraw pass goes on to the next widget without a call of draw.
Skipped == pc' = "redraw" /\ ridx' = ridx + 1 /\ fg_event' = NoEvent

\* A step that ends the use of the copy of an updatable widget's draw_data.
UseStep == pc = "use" /\ pc' # "use"

\* C25: in the redraw pass a widget that is not updatable has draw called
\* (the bound function runs if the widget is enabled); an updatable widget
\* is skipped only while its draw_data is still empty; draw_data, once
\* published, stays published for the session; and for a published widget
\* the frame draws the payload (the bound draw function is called, and may
\* itself fail) or the error banner.
C25_SkippedOnlyWhileLoading ==
    /\ [][RedrawStep /\ ~updatable(widgets[rw]) =>
             fg_event' = IF widgets[rw].enabled THEN Invoked("draw", rw) ELSE NoEvent]_vars
    /\ [][RedrawStep /\ updatable(widgets[rw]) =>
             IF draw_data[rw] = EmptyData THEN Skipped ELSE pc' = "acquire"]_vars
    /\ [][InSession /\ pc' \in SessionPcs =>
             \A w \in WidgetIds : draw_data[w] # EmptyData => draw_data'[w] # EmptyData]_vars
    /\ [][UseStep =>
             \/ fg_event' = Invoked("draw", rw)
             \/ data_copy.has_error /\ pc' = "redraw" /\ exc' = exc]_vars

\* C26: every store of the scheduler into a widget's draw_data (a payload or
\* an error marker) and last_updated is made while the scheduler holds that
\* widget's lock.
C26_SchedulerWritesUnderLock ==
    [][UpdateCallEnds => lock[sw] = "scheduler" /\ lock'[sw] = "free"]_vars

\* C27: the render loop holds a widget's lock only while it copies
\* draw_data, and what it does with the widget afterwards depends on the
\* copy alone: a copy with the error marker gives the error banner, whatever
\* the shared draw_data holds by then.
C27_FrameUsesOnlyItsCopy ==
    /\ [](\A w \in WidgetIds : lock[w] = "render" => pc = "copy" /\ rw = w)
    /\ [][UseStep /\ data_copy.has_error => pc' = "redraw" /\ ridx' = ridx + 1 /\ exc' = exc]_vars

\* The widgets whose lock is held.
Held == {w \in WidgetIds : lock[w] # "free"}

\* The positions of the render loop between two of its waits for input.
RenderPcs == {"frame", "redraw", "acquire", "copy", "use"}

\* C28: at most one widget lock is held at any time; no lock is held when
\* the render loop acquires one; the scheduler holds no lock, in particular
\* none during an update call; the lock the render loop asks for is always
\* free, and in every state of a running session some thread can take a step.
C28_NoLockHeldAcrossAcquireOrUpdate ==
    /\ Cardinality(Held) <= 1
    /\ pc = "acquire" => Held = {} /\ ENABLED acquire
    /\ \A w \in WidgetIds : lock[w] \in {"free", "render"}
    /\ spc = "call" /\ Held # {} => pc = "copy" /\ Held = {rw}
    /\ InSession => ENABLED (Foreground \/ Scheduler)

\* C28 witness: the render loop is about to acquire the lock of the second
\* widget, after it has held and released the lock of the first, while an
\* update call of the first widget is in progress.
C28_Witness ==
    /\ pc = "acquire"
    /\ ridx = 2
    /\ draw_data["w1"] # EmptyData
    /\ spc = "call"
    /\ sw = "w1"
    /\ Held = {}

\* C29: while an update call is in progress, however long, the render loop
\* can always take its next step, the scheduler visits no other widget, and
\* every frame the render loop has begun is completed (or left by an
\* exception), whether or not the update call ever returns.
C29_SlowUpdateNeverBlocksFrames ==
    /\ [](spc = "call" /\ pc \in RenderPcs => ENABLED Foreground)
    /\ [][spc = "call" /\ spc' = "call" /\ pc' \in RenderPcs => sidx' = sidx /\ sw' = sw]_vars
    /\ (pc \in RenderPcs \ {"frame"}) ~> (pc \in {"frame", "cleanup"})

\* C29 witness: a frame has been completed (the redraw pass has passed the
\* last widget) while the update call that started before the pass is still
\* in progress and time has run to its end.
C29_Witness ==
    /\ pc = "redraw"
    /\ ridx > Len(WidgetOrder)
    /\ spc = "call"
    /\ clock = MaxTime
    /\ call_time < clock

\* C30: the scheduler thread is started only when all widgets are built, and
\* by the time main_curses has torn the terminal down and its exception is
\* with main_entry_point, the thread it started has ended.
C30_OneSchedulerThread ==
    /\ spc # "not_started" => pc \in SessionPcs \cup {"handle", "terminated"}
    /\ pc \in {"handle", "terminated"} /\ spc # "not_started" => spc = "done"

\* The number of steps the scheduler thread is away from its end once
\* stop_event is set: the update call in progress, the for loop head, the
\* while test.
StepsToEnd == CASE spc = "call" -> 3 [] spc = "for" -> 2 [] spc = "while" -> 1 [] OTHER -> 0

SchedulerStep == InSession /\ pc' \in SessionPcs /\ spc' # spc

\* C31: once stop_event is set, the scheduler starts no update call (the
\* flag is tested at the while and in the for loop before every widget) and
\* each of its steps brings it nearer to its end, the while and for steps
\* are never blocked, so that the thread ends unless its update call never
\* returns; and join returns also while an update call is in progress, so
\* that teardown goes on without the thread.
C31_CooperativeCancellation ==
    /\ [][stop_event /\ spc' = "call" => spc = "call"]_vars
    /\ [][stop_event /\ SchedulerStep => StepsToEnd' < StepsToEnd]_vars
    /\ [](InSession /\ spc \in {"while", "for"} => ENABLED (tick \/ visit))
    /\ [](pc = "join" /\ spc \in {"call", "done"} => ENABLED join)
    /\ (stop_event /\ InSession) ~> (spc = "done" \/ ~InSession)

\* C31 witness: the flag was set after the first widget's refresh of the
\* first tick; the scheduler left the for loop before the second widget,
\* which was due, and has ended while the foreground waits in join.
C31_Witness ==
    /\ pc = "join"
    /\ stop_event
    /\ spc = "done"
    /\ Len(reloadable_widgets) = 2
    /\ draw_data["w1"] # EmptyData
    /\ draw_data["w2"] = EmptyData
    /\ last_updated["w2"] = 0

\* A step of the scheduler's for loop at a widget (not at the end of the
\* list), before stop_event is set.
VisitStep ==
    /\ InSession
    /\ spc = "for"
    /\ sidx <= Len(reloadable_widgets)
    /\ ~stop_event
    /\ pc' \in SessionPcs
    /\ (spc' # spc \/ sidx' # sidx)

\* C32: a failed update call stores the error marker and leaves last_updated
\* as it was; a widget whose draw_data holds the marker is due, so that every
\* visit of the scheduler to it, in every following tick, calls update
\* again; a call that returns replaces the marker by the payload and stamps
\* last_updated with the tick's now.
C32_FailedUpdateRetriedEveryTick ==
    /\ [][UpdateCallEnds /\ draw_data'[sw].has_error =>
             draw_data'[sw] \in MarkerValues /\ last_updated' = last_updated]_vars
    /\ [](\A w \in WidgetIds :
             InSession /\ updatable(widgets[w]) /\ draw_data[w].has_error =>
                due(clock, last_updated[w], widgets[w].interval))
    /\ [][VisitStep /\ draw_data[sw].has_error =>
             spc' = "call" /\ sched_event' = Invoked("update", sw)]_vars
    /\ [][UpdateCallEnds /\ draw_data[sw].has_error /\ ~draw_data'[sw].has_error =>
             draw_data'[sw] \in UpdateResults /\ last_updated'[sw] = now]_vars

\* C32 witness: update is being called again for a widget whose draw_data
\* holds the error marker of a failed call, in a tick less than one interval
\* after the tick of the failed call (the widget was refreshed at time 1, so
\* the failed call was made in a tick at time 2 or later).
C32_Witness ==
    /\ InSession
    /\ spc = "call"
    /\ draw_data[sw].has_error
    /\ last_updated[sw] = 1
    /\ now = 2
    /\ widgets[sw].interval.value = 1

\* The scheduler is inside a tick (between line 1073 and line 1091).
InTick == InSession /\ spc \in {"for", "call"}

\* C33: now is sampled once per tick, at its start, and is not changed during
\* the tick; every refresh of the tick stamps last_updated with it, so that
\* the stamp is not later than the time the update was called, which is not
\* later than the time it returned; and the due test of a visit compares the
\* tick's now with the stamp.
C33_StampIsTickStart ==
    /\ [][spc = "while" /\ spc' = "for" => now' = clock]_vars
    /\ [][InTick /\ spc' \in {"for", "call"} /\ pc' \in SessionPcs => now' = now]_vars
    /\ [](InTick => now <= clock)
    /\ [](spc = "call" /\ InSession => now <= call_time /\ call_time <= clock)
    /\ [][UpdateCallEnds /\ ~draw_data'[sw].has_error =>
             last_updated'[sw] = now /\ accepted_at'[sw] = Number(call_time)]_vars
    /\ [][VisitStep => (spc' = "call" <=> now - last_updated[sw] >= widgets[sw].interval.value)]_vars

\* C33 witness: the second widget's update was called at time 2, after the
\* first widget's update had taken one time unit in the same tick, and
\* returned at time 3; its last_updated is 1, the start of the tick.
C33_Witness ==
    /\ InSession
    /\ Len(reloadable_widgets) = 2
    /\ last_updated["w2"] = 1
    /\ accepted_at["w2"] = Number(2)
    /\ last_updated["w1"] = 1
    /\ clock = 3
    /\ spc = "for"
    /\ sidx = 3

\* A frame whose input was read (the size check passed) and whose mouse
\* handling was not left by an exception of the widget's mouse function.
InputHandled ==
    /\ FrameStep
    /\ fg_event'.key # "unread"
    /\ ~(pc' = "cleanup" /\ fg_event'.fn = "mouse")

\* C34: in every frame whose input handling ends with a widget highlighted,
\* keyboard_action of that widget is called, whatever getch returned (the
\* timeout value, KEY_MOUSE, a bound or unbound key); after a press it is
\* called after mouse_action of the same widget; and it is called in no
\* frame that ends with nothing highlighted.
C34_KeyboardCalledEveryHighlightedFrame ==
    /\ [][InputHandled /\ ui_state'.highlighted # None =>
             /\ fg_event' = FrameEvent(Invoked("keyboard", ui_state'.highlighted),
                                       fg_event'.calls, fg_event'.size, fg_event'.key,
                                       fg_event'.pressed, fg_event'.pt)
             /\ fg_event'.calls = IF fg_event'.key = "mouse" /\ fg_event'.pressed
                                  THEN <<"mouse", "keyboard">> ELSE <<"keyboard">>]_vars
    /\ [][InputHandled /\ ui_state'.highlighted = None => fg_event'.calls = <<>>]_vars

\* C34 witness: getch timed out in a frame with the first widget
\* highlighted, and keyboard_action of that widget was called.
C34_Witness ==
    /\ pc = "redraw"
    /\ AfterFrame
    /\ fg_event.key = "timeout"
    /\ fg_event.calls = <<"keyboard">>
    /\ fg_event.widget = "w1"
    /\ ui_state.highlighted = "w1"

\* The cells widget w occupies: rows y..y+height-1, columns x..x+width-1.
Occupies(w, pt) ==
    /\ Dims[w].x <= pt[1] /\ pt[1] < Dims[w].x + Dims[w].width
    /\ Dims[w].y <= pt[2] /\ pt[2] < Dims[w].y + Dims[w].height

\* The point lies on the row y+height or on the column x+width of widget w,
\* within rows y..y+height and columns x..x+width.
OnFarEdge(w, pt) == w \in Containing(pt) /\ ~Occupies(w, pt)

\* Widget late starts (its first row or its first column) exactly where
\* widget early, declared before it, ends.
StartsWhereEnds(late, early) ==
    /\ Position(early) < Position(late)
    /\ \/ Dims[late].y = Dims[early].y + Dims[early].height
       \/ Dims[late].x = Dims[early].x + Dims[early].width

\* C35: a press on the row y+height or on the column x+width of a widget is
\* inside it (it highlights that widget unless a widget declared before it
\* contains the point too); and a press on a cell of a later-declared
\* widget that lies on that row or column of an earlier-declared widget
\* highlights a widget declared before the later one, not the widget whose
\* cell was pressed.
C35_HitRegionOneBeyondCells ==
    /\ [][PressStep =>
             \A w \in WidgetIds :
                OnFarEdge(w, fg_event'.pt) =>
                   /\ ui_state'.highlighted # None
                   /\ Position(ui_state'.highlighted) <= Position(w)
                   /\ ((\A v \in Containing(fg_event'.pt) : Position(w) <= Position(v))
                          => ui_state'.highlighted = w)]_vars
    /\ [][PressStep =>
             \A late, early \in WidgetIds :
                /\ StartsWhereEnds(late, early)
                /\ Occupies(late, fg_event'.pt)
                /\ OnFarEdge(early, fg_event'.pt)
                => /\ ui_state'.highlighted # late
                   /\ ui_state'.highlighted # None
                   /\ Position(ui_state'.highlighted) <= Position(early)]_vars

\* C35 witness: a press on the top left cell of w2, which is the row below
\* the last row of w1, has highlighted w1.
C35_Witness ==
    /\ pc = "redraw"
    /\ AfterFrame
    /\ fg_event.key = "mouse"
    /\ fg_event.pressed
    /\ fg_event.pt = <<Dims["w2"].x, Dims["w2"].y>>
    /\ StartsWhereEnds("w2", "w1")
    /\ Occupies("w2", fg_event.pt)
    /\ ~Occupies("w1", fg_event.pt)
    /\ ui_state.highlighted = "w1"

\* A disabled widget is highlighted.
DisabledHighlighted == ui_state.highlighted # None /\ ~widgets[ui_state.highlighted].enabled

\* C36: a press inside the rectangle of a disabled widget that is the first
\* match in declaration order highlights it, also when an enabled widget
\* declared later contains the point; while a disabled widget is
\* highlighted, no key raises StopException or RestartException, and the
\* highlight changes during the session only by Escape or by a press.
C36_DisabledWidgetTakesHighlight ==
    /\ [][PressStep =>
             \A w \in Containing(fg_event'.pt) :
                /\ ~widgets[w].enabled
                /\ \A v \in Containing(fg_event'.pt) : Position(w) <= Position(v)
                => ui_state'.highlighted = w]_vars
    /\ [][DisabledHighlighted /\ FrameStep /\ fg_event'.key \in {"quit_key", "reload_key"} =>
             /\ exc'.type \notin KeySignals
             /\ ui_state' = ui_state]_vars
    /\ [][DisabledHighlighted /\ InSession /\ pc' \in SessionPcs /\ ui_state' # ui_state =>
             /\ FrameStep
             /\ \/ fg_event'.key = "escape"
                \/ fg_event'.key = "mouse" /\ fg_event'.pressed]_vars

\* C36 witness: w1 is disabled, w2 is enabled, a press has highlighted w1,
\* and the quit key was read in a later frame without ending the session.
C36_Witness ==
    /\ pc = "redraw"
    /\ AfterFrame
    /\ fg_event.key = "quit_key"
    /\ ~widgets["w1"].enabled
    /\ widgets["w2"].enabled
    /\ ui_state.highlighted = "w1"
    /\ exc = NoExc

\* A frame of a session in which a character was typed.
TypedStep == pc = "frame" /\ pc' # "load" /\ fg_event'.key \in Typed

\* The signal a frame raised ("none": the frame ended normally).
Raised == IF pc' = "handle" THEN exc'.type ELSE "none"

\* The reload character is also the help or the quit character.
ReloadShadowed ==
    files.config.reload_key \in {files.config.help_key, files.config.quit_key}

\* C37: with nothing highlighted, a typed character that is the quit
\* character raises StopException; otherwise one that is the help character
\* does nothing; otherwise one that is the reload character raises
\* RestartException; any other does nothing.  A session is entered without
\* an Error whether or not the three characters differ, and in a session
\* whose reload character is also the help or the quit character no frame
\* raises RestartException.
C37_FirstMatchingBindingWins ==
    /\ [][TypedStep /\ ui_state.highlighted = None =>
             Raised = IF fg_event'.key = files.config.quit_key THEN "StopException"
                      ELSE IF fg_event'.key = files.config.help_key THEN "none"
                      ELSE IF fg_event'.key = files.config.reload_key THEN "RestartException"
                      ELSE "none"]_vars
    /\ [](pc = "frame" => /\ ~contains_error(log_messages)
                          /\ \A f \in Range(KeyFields) : files.config[f] \in Typed)
    /\ [][pc = "frame" /\ ReloadShadowed => Raised # "RestartException"]_vars

\* C37 witness: base.yaml gives the same character for reload and help; the
\* session was entered, and that character was typed with nothing
\* highlighted: the session goes on.
C37_Witness ==
    /\ pc = "frame"
    /\ files.config.reload_key = files.config.help_key
    /\ files.config.reload_key # files.config.quit_key
    /\ files.yaml.reload_key = files.config.reload_key
    /\ "key" \in DOMAIN fg_event
    /\ fg_event.key = files.config.reload_key
    /\ ui_state = NoUI
    /\ exc = NoExc

\* No widget of the session is enabled.
NoneEnabled == \A w \in WidgetIds : ~widgets[w].enabled

\* The error of max() over an empty sequence is in flight.
EmptyMaxFault == exc.type = "ValueError"

\* C38: with no enabled widget the first bounding-box computation raises
\* ValueError before the scheduler thread is started: no session with no
\* enabled widget reaches the render loop; the error reaches
\* main_entry_point as it is, with the terminal restored, is not one of the
\* exceptions main_curses or main_entry_point name, is not reported, starts
\* no other session and ends the process.
C38_NoEnabledWidgetFaultsAtStartup ==
    /\ [][pc = "size_check" /\ NoneEnabled =>
             /\ pc' = "handle"
             /\ exc' = Exc("ValueError", <<>>, "max() arg is an empty sequence")
             /\ term' = "normal"
             /\ spc = "not_started" /\ spc' = "not_started"]_vars
    /\ [](pc \in {"start"} \cup SessionPcs => ~NoneEnabled)
    /\ [](EmptyMaxFault =>
             /\ pc \in {"handle", "terminated"}
             /\ spc = "not_started"
             /\ exc.type \notin NamedSignals \cup Reported)
    /\ [][pc = "handle" /\ EmptyMaxFault =>
             pc' = "terminated" /\ exc' = exc /\ printed' = printed]_vars

\* C38 witness: a session whose widgets were all built disabled has ended
\* the process with the ValueError, nothing printed for it, the scheduler
\* never started.
C38_Witness ==
    /\ pc = "terminated"
    /\ NoneEnabled
    /\ widgets # NotBuilt
    /\ EmptyMaxFault
    /\ spc = "not_started"
    /\ term = "normal"

\* The file of w1 gives a negative interval.
NegativeInterval == ~files.yaml.interval.is_none /\ files.yaml.interval.value < 0

\* C39: a negative interval in the widget file gives no Error and is kept as
\* it is by Config and by the widget built from it; the widget is updatable
\* if an update function is bound and it is enabled; it is due at every
\* time, and every visit of the scheduler to it, in every tick, calls its
\* update.
C39_NegativeIntervalRefreshesEveryTick ==
    /\ [](pc # "load" /\ NegativeInterval =>
             /\ ~contains_error(log_messages)
             /\ files.config.interval = files.yaml.interval)
    /\ [](InSession /\ NegativeInterval =>
             /\ widgets["w1"].interval = files.yaml.interval
             /\ (updatable(widgets["w1"]) <=> widgets["w1"].update_func /\ widgets["w1"].enabled)
             /\ due(clock, last_updated["w1"], widgets["w1"].interval)
             /\ (spc \in {"for", "call"} => due(now, last_updated["w1"], widgets["w1"].interval)))
    /\ [][VisitStep /\ NegativeInterval =>
             spc' = "call" /\ sched_event' = Invoked("update", sw)]_vars

\* C39 witness: the widget with interval -1 was refreshed in a tick at the
\* present time, and in another tick at the same time its update is being
\* called again.
C39_Witness ==
    /\ InSession
    /\ NegativeInterval
    /\ spc = "call"
    /\ sw = "w1"
    /\ last_updated["w1"] = clock
    /\ now = clock
    /\ draw_data["w1"] \in UpdateResults

\* Thread t has been given up on: its session is over (join has returned)
\* and the thread has not ended.
Abandoned(t) ==
    /\ spc[t] \in {"while", "for", "call"}
    /\ (t < files.session \/ pc = "handle")

\* The steps thread t is away from its end once its stop_event is set.
ThreadStepsToEnd(t) ==
    CASE spc[t] = "call" -> 3 [] spc[t] = "for" -> 2 [] spc[t] = "while" -> 1 [] OTHER -> 0

\* C40: a step of the thread of one session changes draw_data and
\* last_updated of no widget built by another session; a thread that was
\* given up on inside an update call makes at most one store after its
\* stop_event was set, into a widget of its own session, starts no update
\* call, is never blocked outside the update call, and each of its steps
\* brings it nearer to its end.
C40_AbandonedThreadKeepsToItsSession ==
    /\ [][\A t, s \in Sessions :
             t # s /\ spc[t] = "call" /\ spc'[t] # "call" =>
                draw_data'[s] = draw_data[s] /\ last_updated'[s] = last_updated[s]]_vars
    /\ [][\A t \in Sessions :
             spc[t] = "call" /\ spc'[t] # "call" =>
                sched_event'.thread = t /\ sched_event'.session = t]_vars
    /\ [](\A t \in Sessions : accepted_at[t] <= 1)
    /\ [][\A t \in Sessions : stop_event[t] /\ spc'[t] = "call" => spc[t] = "call"]_vars
    /\ [][\A t \in Sessions :
             stop_event[t] /\ spc'[t] # spc[t] => ThreadStepsToEnd(t)' < ThreadStepsToEnd(t)]_vars
    /\ [](\A t \in Sessions :
             Abandoned(t) /\ spc[t] # "call" => ENABLED (scheduler_tick(t) \/ scheduler_visit(t)))

\* C40 witness: during the second session, whose own thread has refreshed
\* its first widget, the thread of the first session, given up on inside
\* the update call of its second widget, has made that one store into its
\* own widget and has ended.
C40_Witness ==
    /\ files.session = 2
    /\ pc = "frame"
    /\ spc[1] = "done"
    /\ accepted_at[1] = 1
    /\ sched_event = Store(1, 1, "w2")
    /\ draw_data[1]["w2"] # EmptyData
    /\ draw_data[2]["w1"] # EmptyData
    /\ draw_data[2]["w2"] = EmptyData
    /\ spc[2] \in {"for", "call"}

=============================================================================
